---- MODULE Spec2Model ----
(***************************************************************************)
(* A model of the layout engine of voidshard/citygraph: the nearest-site   *)
(* query of the Voronoi index, the line classifier (lineSegments), the     *)
(* road Edge/Section bookkeeping, the boundary extractor (Circut), the     *)
(* ring walk that places buildings, the district type assignment, the      *)
(* wall promotion, gates and tower filler of addWalls, the image map, the  *)
(* point generator of a site (AllContains), VoronoiDiagram.Repair, and the *)
(* placing of the random sites with the count of their buildable land.     *)
(*                                                                         *)
(* Every component has its own variables, initial condition and            *)
(* next-state relation; while one component runs, the variables of the     *)
(* others rest at their idle value.                                        *)
(*                                                                         *)
(* calculateDist is sqrt(dx^2 + dy^2) on float64.  Distances are only ever *)
(* compared with each other or truncated to int, so the model keeps the    *)
(* squared distance (SqDist) and takes the integer square root (ISqrt)     *)
(* where the code truncates.                                               *)
(***************************************************************************)
EXTENDS Integers, Sequences, FiniteSets, TLC

VARIABLES
  \* ---- Voronoi.SiteFor ----
  sites,      \* v.sites: sequence of site centres [X, Y]
  query,      \* the (x, y) passed to SiteFor
  sfI,        \* position of the range loop over v.sites (1-based)
  dist,       \* local dist (squared); -1 = unset
  pick,       \* local pick: index of a site, 0 = nil
  sfRet,      \* returned site index, 0 while running or nil
  sfPc        \* "idle" | "loop" | "done"

VARIABLES
  \* ---- Citygraph.lineSegments ----
  start,      \* argument start
  end,        \* argument end
  hasSite,    \* TRUE iff the site argument is not nil
  kinds,      \* what the map and the Outline can hold at a point of the path
  terrain,    \* what they hold at path[1..i-1], read as the loop reaches each point
  mes,        \* the value of `me` computed for path[1..i-1]
  i,          \* loop index into path (1-based; the code's i + 1)
  prevIndex,  \* 1-based; 0 stands for the code's -1
  prevEnum,   \* -1 = unset
  roads,      \* sub-segments <<first point, last point>>
  bridges,
  walls,
  linePc,     \* "idle" | "loop" | "done" | "recorded"
  \* ---- Citygraph.addMainRoads / addMinorRoads, for the edge being handled ----
  maxBridges,       \* c.cfg.MaxBridges (main road) or dcfg.MaxBridges (minor road)
  MinBridgeLength,  \* c.cfg.MinBridgeLength
  MaxBridgeLength,  \* c.cfg.MaxBridgeLength
  createdBridges,   \* createdBridges (main road) or d.Stats.Bridges (minor road)
  Sections,         \* e.Sections: sequence of [Path, Bridge]
  edgeOf,           \* "none" | "main" | "minor": who appended e to d.Roads
  drawn             \* calls of cmap.drawRoad / cmap.drawBridge: <<kind, segment>>

VARIABLES
  \* ---- cell.Circut / deletionMethod ----
  bnds,        \* argument bnds: [Min, Max]
  cells,       \* the cells of the diagram the sites come from
  inside,      \* argument inside (as the set of its cells)
  outside,     \* argument outside
  neighbours,  \* neighbours[<<v, n>>]: is the link v -> n still valid
  seen,        \* the keys the range loop over neighbours has visited
  wall,        \* the returned segments
  circPc       \* "idle" | "collect" | "delete" | "done"

VARIABLES
  \* ---- Citygraph.addBuildingsToDistrict: the ring walk over one district ----
  siteBnds,       \* bnds := site.Bounds()
  dcfgBuildings,  \* dcfg.Buildings: sequence of BuildingConfig
  dcfgCentral,    \* dcfg.Central: <<>> for nil, or <<BuildingConfig>>
  canBuildOn,     \* the points where outline.CanBuildOn holds
  structures,     \* the points where the map holds a road, bridge, wall, tower or gatehouse
  buildingID,     \* the building id the map holds at each point
  must,           \* distbuild.must: indices into dcfg.Buildings
  count,          \* distbuild.count, by index into dcfg.Buildings
  Buildings,      \* d.Buildings: sequence of [ID, Area]
  BuildingsByID,  \* d.Stats.BuildingsByID
  ring,           \* the loop variable i of the ring walk
  ringAt,         \* the loop variable x or y of the edge loop
  ringPc,         \* "idle" | "central" | "top" | "bottom" | "left" | "right" | "done"
  placed          \* for each entry of d.Buildings: where it was written, which
                  \* footprint, and buildingFits there just before the write

VARIABLES
  \* ---- Citygraph.build: district sites, randomDistricts, verifyDistrictLocations ----
  DistrictSites,     \* c.cfg.DistrictSites: the type of each site the user gave
  DesiredDistricts,  \* c.cfg.DesiredDistricts
  bcfgDistricts,     \* c.bcfg.Districts: DistrictConfig by type
  Districts,         \* c.Districts: sequence of [Type, user]; "" = type not set yet
  DistrictsByType,   \* c.Stats.DistrictsByType
  toSet,             \* toSet / added / in: indices into c.Districts
  dtypes,            \* dtypes
  tempStats,         \* tempStats
  docks,             \* docks: indices into c.Districts
  potentialdock,     \* potentialdock
  dockSuited,        \* the districts whose Stats.DockSuitable has reached c.cfg.MinDockSize
  retyped,           \* by district: how often the dock repair has changed its Type
  distPc             \* "idle" | "sites" | "random" | "fill" | "verify" | "docks"
                     \* | "returned" (New has returned)
                     \* | "done" (no error so far) | "failed" (error) | "spin"

VARIABLES
  \* ---- Citygraph.addWalls: inside, outside and curtain-walled districts ----
  wallDists,          \* c.Districts, as addWalls reads them
  MinFortifiedSites,  \* c.cfg.Fortifications.MinFortifiedSites
  curtainWall,        \* curtainWall: indices into c.Districts
  insideDists,        \* insideDists
  outsideDists,       \* outsideDists
  needed,             \* needed
  wasOutside,         \* the districts the classifying loop put in outsideDists
  MaxCityGates,       \* c.cfg.Fortifications.MaxCityGates
  Gates,              \* c.Gates, as the edges the gatehouses stand on
  dGates,             \* d.Gates of every district, likewise
  wallAt,             \* the index of the range over curtainWall
  wallPc              \* "idle" | "classify" | "promote" | "gates" | "curtain" | "done"

VARIABLES
  \* ---- Citygraph.wallDistricts: the tower filler ----
  MinDistBetweenTowers,  \* c.cfg.Fortifications.MinDistBetweenTowers
  TowerArea,             \* c.cfg.Fortifications.TowerArea
  towerLand,             \* the points where CanBuildOn or CanBridgeOver holds
  allTowers,             \* allTowers: the towers of the groups walled before
  towers,                \* towers of the group being walled
  towerLog,              \* the towers tryPlaceTower has placed, in order: [at, atEnd]
  towerGroups,           \* the walled groups still to come, each its wall runs
  towerPaths,            \* the wall runs of this group still to fill: <<a, b>>
  towerPc                \* "idle" | "walls" | "fill" | "spin"

VARIABLES
  \* ---- New: what the caller is handed ----
  retCg,    \* the *Citygraph New returns: [isNil, Districts]
  retErr    \* the error New returns is not nil

VARIABLES
  \* ---- imageMap ----
  imBounds,             \* c.im.Bounds(), the bounds of ctx too
  scratch,              \* ctx.Image(): the colour drawn at each pixel, 8 bits a channel
  masked,               \* the pixels the mask keeps from being painted
  outlineBuild,         \* where Outline.CanBuildOn holds
  outlineBridge,        \* where Outline.CanBridgeOver holds
  im,                   \* c.im: each pixel's district, building id and bitmap
  wallBorderRoadWidth,  \* the radius endDraw is called with
  mapDraws,             \* how many draw calls were made
  mapQuery,             \* the coordinate last read
  mapRead,              \* what the reads returned there
  mapPc                 \* "idle" | "draw" | "drawn" | "read"

VARIABLES
  genBounds,          \* vPGen.bounds
  genX,               \* vPGen.x
  genY,               \* vPGen.y
  genReturned         \* what the calls of Next have returned, in order

VARIABLES
  cellEdges,          \* cell.Edges of the cell under repair, a segment is <<p, q>>
  epsilon,            \* epsilon
  mapping,            \* mapping
  starts,             \* starts
  repairI,            \* i of the loop over cell.Edges, from 1
  repairPc            \* "idle" | "merge" | "edges" | "sort" | "done" | "panic"

VARIABLES
  MinDistrictSize,    \* c.cfg.MinDistrictSize
  outlineCanBuildOn,  \* the points where c.outline.CanBuildOn holds
  gbSites,            \* c.gb.sites
  addedTypes,         \* Type of the districts randomDistricts added
  Buildable,          \* Stats.Buildable of the same districts
  placePc             \* "idle" | "sites" | "done"

sfVars == <<sites, query, sfI, dist, pick, sfRet, sfPc>>

circVars == <<bnds, cells, inside, outside, neighbours, seen, wall, circPc>>

lineVars == <<start, end, hasSite, kinds, terrain, mes, i, prevIndex, prevEnum,
              roads, bridges, walls, linePc>>

roadVars == <<maxBridges, MinBridgeLength, MaxBridgeLength, createdBridges,
              Sections, edgeOf, drawn>>

buildVars == <<siteBnds, dcfgBuildings, dcfgCentral, canBuildOn, structures, buildingID, must,
               count, Buildings, BuildingsByID, ring, ringAt, ringPc, placed>>

distVars == <<DistrictSites, DesiredDistricts, bcfgDistricts, Districts,
              DistrictsByType, toSet, dtypes, tempStats, docks, potentialdock,
              dockSuited, retyped, distPc>>

wallVars == <<wallDists, MinFortifiedSites, curtainWall, insideDists, outsideDists,
              needed, wasOutside, MaxCityGates, Gates, dGates, wallAt, wallPc>>

towerVars == <<MinDistBetweenTowers, TowerArea, towerLand, allTowers, towers,
               towerLog, towerGroups, towerPaths, towerPc>>

newVars == <<retCg, retErr>>

mapVars == <<imBounds, scratch, masked, outlineBuild, outlineBridge, im,
             wallBorderRoadWidth, mapDraws, mapQuery, mapRead, mapPc>>

genVars == <<genBounds, genX, genY, genReturned>>

repairVars == <<cellEdges, epsilon, mapping, starts, repairI, repairPc>>

placeVars == <<MinDistrictSize, outlineCanBuildOn, gbSites, addedTypes, Buildable, placePc>>

vars == <<sfVars, lineVars, roadVars, circVars, buildVars, distVars, wallVars, towerVars,
          newVars, mapVars, genVars, repairVars, placeVars>>

--------------------------------------------------------------------------
\* Bounds

SfMaxSites == 3
SfMaxCoord == 1
LineMaxCoord == 2
RoadMaxRun == 4
RoadMaxRise == 1
RoadMaxBridges == 1
RoadMaxBridgeLen == 2
CircSize == 4
CircMaxCells == 4
BuildMaxSide == 4
DistMaxSites == 2
DistMaxDesired == 3
WallMaxDistricts == 3
WallMaxFar == 2
WallMaxGates == 2
WallMaxGateLocs == 2
TowerMaxCoord == 4
TowerMaxDist == 3
MapMaxSide == 2
MapMaxRadius == 1
MapMaxDraws == 2
PlaceMaxSide == 3
PlaceMaxSites == 2
PlaceMaxSize == 3
RepairMaxCoord == 2
RepairMaxEdges == 5
RepairMaxEpsilon == 1
GenMaxCoord == 3
GenMaxCalls == 5

--------------------------------------------------------------------------
\* Shared helpers

Pt(x, y) == [X |-> x, Y |-> y]

\* calculateDist squared
SqDist(ax, ay, bx, by) == (ax - bx) * (ax - bx) + (ay - by) * (ay - by)

SeqsUpTo(S, n) == UNION {[1..k -> S] : k \in 1..n}

--------------------------------------------------------------------------
\* Voronoi.SiteFor

SfGrid == {Pt(x, y) : x \in 0..SfMaxCoord, y \in 0..SfMaxCoord}

IdleSiteFor ==
  /\ sites = <<>> /\ query = Pt(0, 0) /\ sfI = 0 /\ dist = -1
  /\ pick = 0 /\ sfRet = 0 /\ sfPc = "idle"

InitSiteFor ==
  /\ sites \in SeqsUpTo(SfGrid, SfMaxSites)
  /\ query \in SfGrid
  /\ sfI = 1
  /\ dist = -1
  /\ pick = 0
  /\ sfRet = 0
  /\ sfPc = "loop"

sdist(k) == SqDist(sites[k].X, sites[k].Y, query.X, query.Y)

\* if dist == 0 { return site }
SiteForReturnZero ==
  /\ sfPc = "loop" /\ sfI <= Len(sites)
  /\ dist = 0
  /\ sfRet' = sfI
  /\ sfPc' = "done"
  /\ UNCHANGED <<sites, query, sfI, dist, pick>>
  /\ UNCHANGED <<lineVars, roadVars, circVars, buildVars, distVars, wallVars, towerVars, newVars, mapVars, genVars, repairVars, placeVars>>

\* else if dist < 0 || sdist < dist { dist = sdist; pick = site }
SiteForScan ==
  /\ sfPc = "loop" /\ sfI <= Len(sites)
  /\ dist # 0
  /\ IF dist < 0 \/ sdist(sfI) < dist
       THEN dist' = sdist(sfI) /\ pick' = sfI
       ELSE UNCHANGED <<dist, pick>>
  /\ sfI' = sfI + 1
  /\ UNCHANGED <<sites, query, sfRet, sfPc>>
  /\ UNCHANGED <<lineVars, roadVars, circVars, buildVars, distVars, wallVars, towerVars, newVars, mapVars, genVars, repairVars, placeVars>>

\* return pick
SiteForReturnPick ==
  /\ sfPc = "loop" /\ sfI > Len(sites)
  /\ sfRet' = pick
  /\ sfPc' = "done"
  /\ UNCHANGED <<sites, query, sfI, dist, pick>>
  /\ UNCHANGED <<lineVars, roadVars, circVars, buildVars, distVars, wallVars, towerVars, newVars, mapVars, genVars, repairVars, placeVars>>

--------------------------------------------------------------------------
\* line.PointsBetween (bresenham)

\* case dx > dy: x advances every step, y when the error term goes negative
RECURSIVE WideLoop(_, _, _, _, _, _, _)
WideLoop(x, y, e, n, dy2, slope, sy) ==
  IF n = 0 THEN <<>>
  ELSE LET e1 == e - dy2
       IN <<Pt(x, y)>> \o
          (IF e1 < 0 THEN WideLoop(x + 1, y + sy, e1 + slope, n - 1, dy2, slope, sy)
                     ELSE WideLoop(x + 1, y, e1, n - 1, dy2, slope, sy))

\* default case: y advances every step, x when the error term goes negative
RECURSIVE HighLoop(_, _, _, _, _, _, _)
HighLoop(x, y, e, n, dx2, slope, sy) ==
  IF n = 0 THEN <<>>
  ELSE LET e1 == e - dx2
       IN <<Pt(x, y)>> \o
          (IF e1 < 0 THEN HighLoop(x + 1, y + sy, e1 + slope, n - 1, dx2, slope, sy)
                     ELSE HighLoop(x, y + sy, e1, n - 1, dx2, slope, sy))

Abs(n) == IF n < 0 THEN -n ELSE n

\* the points are sorted in x order first (x1 > x2 swaps the end points)
bresenham(ax, ay, bx, by) ==
  LET swap == ax > bx
      x1 == IF swap THEN bx ELSE ax
      y1 == IF swap THEN by ELSE ay
      x2 == IF swap THEN ax ELSE bx
      y2 == IF swap THEN ay ELSE by
      dx == x2 - x1
      dy == Abs(y2 - y1)
      sy == IF y1 < y2 THEN 1 ELSE -1
      ylo == IF y1 > y2 THEN y2 ELSE y1
  IN CASE x1 = x2 /\ y1 = y2 -> <<Pt(x1, y1)>>
       [] y1 = y2 /\ x1 # x2 -> [k \in 1..(dx + 1) |-> Pt(x1 + k - 1, y1)]
       [] x1 = x2 /\ y1 # y2 -> [k \in 1..(dy + 1) |-> Pt(x1, ylo + k - 1)]
       [] x1 # x2 /\ y1 # y2 /\ dx = dy ->
            [k \in 1..(dx + 1) |-> Pt(x1 + k - 1, y1 + sy * (k - 1))]
       [] x1 # x2 /\ y1 # y2 /\ dx > dy ->
            WideLoop(x1, y1, dx, dx, 2 * dy, 2 * dx, sy) \o <<Pt(x2, y2)>>
       [] x1 # x2 /\ y1 # y2 /\ dx < dy ->
            HighLoop(x1, y1, dy, dy, 2 * dx, 2 * dy, sy) \o <<Pt(x2, y2)>>

PointsBetween(a, b) == bresenham(a.X, a.Y, b.X, b.Y)

--------------------------------------------------------------------------
\* Citygraph.lineSegments

enumNothing == 0
enumRoad == 1
enumBridge == 2
enumWall == 3

\* What lineSegments can read at one point: site.Contains, BuildingID != 0,
\* cmap.isFortification, outline.CanBuildOn, outline.CanBridgeOver.
Kind(contains, hasBuilding, isFort, canBuild, canBridge) ==
  [inside |-> contains, building |-> hasBuilding, fort |-> isFort,
   build |-> canBuild, bridge |-> canBridge]

AllKinds ==
  { Kind(FALSE, FALSE, TRUE, TRUE, FALSE),   \* fortified land outside the cell
    Kind(TRUE, TRUE, TRUE, TRUE, FALSE),     \* a building, on fortified land
    Kind(TRUE, FALSE, TRUE, TRUE, FALSE),    \* fortification drawn on land
    Kind(TRUE, FALSE, FALSE, TRUE, TRUE),    \* buildable and bridgeable
    Kind(TRUE, FALSE, FALSE, TRUE, FALSE),   \* land
    Kind(TRUE, FALSE, FALSE, FALSE, TRUE),   \* water
    Kind(TRUE, FALSE, FALSE, FALSE, FALSE) } \* unusable

\* without a site argument site.Contains is never asked
KindsFor(hs) == IF hs THEN AllKinds ELSE {k \in AllKinds : k.inside}

LineGrid == {Pt(x, y) : x \in 0..LineMaxCoord, y \in 0..LineMaxCoord}

path == PointsBetween(start, end)

IdleLine ==
  /\ start = Pt(0, 0) /\ end = Pt(0, 0) /\ hasSite = FALSE /\ kinds = {}
  /\ terrain = <<>> /\ mes = <<>> /\ i = 0 /\ prevIndex = 0 /\ prevEnum = -1
  /\ roads = <<>> /\ bridges = <<>> /\ walls = <<>> /\ linePc = "idle"

\* the state on entry to the range loop
LineEntry ==
  /\ terrain = <<>> /\ mes = <<>>
  /\ i = 1
  /\ prevIndex = 0
  /\ prevEnum = -1
  /\ roads = <<>> /\ bridges = <<>> /\ walls = <<>>
  /\ linePc = "loop"

InitLine ==
  /\ start \in LineGrid
  /\ end \in LineGrid
  /\ hasSite \in BOOLEAN
  /\ kinds = KindsFor(hasSite)
  /\ LineEntry

\* the if / else-if chain that sets `me`
ClassifyRoadFirst(k) ==
  IF hasSite /\ ~k.inside THEN enumNothing
  ELSE IF k.building THEN enumNothing
  ELSE IF k.build THEN enumRoad
  ELSE IF k.fort THEN enumWall
  ELSE IF k.bridge THEN enumBridge
  ELSE enumNothing

Classify(k) ==
  IF hasSite /\ ~k.inside THEN enumNothing
  ELSE IF k.building THEN enumNothing
  ELSE IF k.fort THEN enumWall
  ELSE IF k.build THEN enumRoad
  ELSE IF k.bridge THEN enumBridge
  ELSE enumNothing

\* the run closed inside the loop: [2]image.Point{path[prevIndex], path[i-1]}
LoopRunOffByOne(pi, ci) == <<path[pi], path[ci]>>

LoopRun(pi, ci) == <<path[pi], path[ci - 1]>>

\* the run closed after the loop: {path[prevIndex], path[len(path)-1]}
LastRun(pi) == <<path[pi], path[Len(path)]>>

\* one iteration of `for i := range path`
LineStep ==
  /\ linePc = "loop" /\ i <= Len(path)
  /\ \E k \in kinds :
       LET me == Classify(k) IN
       /\ terrain' = Append(terrain, k)
       /\ mes' = Append(mes, me)
       /\ IF prevIndex = 0
            THEN /\ prevIndex' = i
                 /\ prevEnum' = me
                 /\ UNCHANGED <<roads, bridges, walls>>
            ELSE IF prevEnum = me
              THEN UNCHANGED <<prevIndex, prevEnum, roads, bridges, walls>>
              ELSE /\ bridges' = IF prevEnum = enumBridge /\ Len(roads) > 0
                                   THEN Append(bridges, LoopRun(prevIndex, i))
                                   ELSE bridges
                   /\ roads' = IF prevEnum = enumRoad
                                 THEN Append(roads, LoopRun(prevIndex, i))
                                 ELSE roads
                   /\ walls' = IF prevEnum = enumWall
                                 THEN Append(walls, LoopRun(prevIndex, i))
                                 ELSE walls
                   /\ prevIndex' = i
                   /\ prevEnum' = me
  /\ i' = i + 1
  /\ UNCHANGED <<start, end, hasSite, kinds, linePc>>
  /\ UNCHANGED <<sfVars, roadVars, circVars, buildVars, distVars, wallVars, towerVars, newVars, mapVars, genVars, repairVars, placeVars>>

\* after the loop: if prevIndex != len(path)-1 { ... }; return
LineFinish ==
  /\ linePc = "loop" /\ i = Len(path) + 1
  /\ IF prevIndex # Len(path)
       THEN /\ bridges' = IF prevEnum = enumBridge
                            THEN Append(bridges, LastRun(prevIndex)) ELSE bridges
            /\ roads' = IF prevEnum = enumRoad
                          THEN Append(roads, LastRun(prevIndex)) ELSE roads
            /\ walls' = IF prevEnum = enumWall
                          THEN Append(walls, LastRun(prevIndex)) ELSE walls
       ELSE UNCHANGED <<roads, bridges, walls>>
  /\ linePc' = "done"
  /\ UNCHANGED <<start, end, hasSite, kinds, terrain, mes, i, prevIndex, prevEnum>>
  /\ UNCHANGED <<sfVars, roadVars, circVars, buildVars, distVars, wallVars, towerVars, newVars, mapVars, genVars, repairVars, placeVars>>

--------------------------------------------------------------------------
\* Citygraph.addMainRoads / addMinorRoads: one edge

\* int(math.Sqrt(n)) for n >= 0
ISqrt(n) == CHOOSE r \in 0..n : r * r <= n /\ n < (r + 1) * (r + 1)

\* calculateDist(path[0], path[1]) squared
SegSqLen(seg) == SqDist(seg[1].X, seg[1].Y, seg[2].X, seg[2].Y)

\* the orders sort.Slice may leave: shortest first, equal lengths in any order
SortedByLength(segs) ==
  { [n \in 1..Len(segs) |-> segs[p[n]]] :
      p \in { q \in [1..Len(segs) -> 1..Len(segs)] :
               /\ \A a, b \in 1..Len(segs) : a # b => q[a] # q[b]
               /\ \A a, b \in 1..Len(segs) :
                    a < b => SegSqLen(segs[q[a]]) <= SegSqLen(segs[q[b]]) } }

\* the parts of the outline and map a road edge meets
RoadKinds ==
  { Kind(FALSE, FALSE, FALSE, TRUE, FALSE),  \* land outside the cell
    Kind(TRUE, FALSE, FALSE, TRUE, FALSE),   \* land
    Kind(TRUE, FALSE, FALSE, FALSE, TRUE),   \* water
    Kind(TRUE, FALSE, FALSE, FALSE, FALSE) } \* unusable

RoadKindsFor(hs) == IF hs THEN RoadKinds ELSE {k \in RoadKinds : k.inside}

RoadEnds == {Pt(x, y) : x \in 0..RoadMaxRun, y \in 0..RoadMaxRise}

IdleRoads ==
  /\ maxBridges = 0 /\ MinBridgeLength = 0 /\ MaxBridgeLength = 0
  /\ createdBridges = 0 /\ Sections = <<>> /\ edgeOf = "none" /\ drawn = <<>>

InitRoads ==
  /\ \E p \in RoadEnds : (start = Pt(0, 0) /\ end = p)
                            \/ (start = p /\ end = Pt(0, 0))
  /\ hasSite \in BOOLEAN
  /\ kinds = RoadKindsFor(hasSite)
  /\ LineEntry
  /\ maxBridges \in -1..RoadMaxBridges
  /\ MinBridgeLength \in 0..RoadMaxBridgeLen
  /\ MaxBridgeLength \in 0..RoadMaxBridgeLen
  /\ createdBridges = 0
  /\ Sections = <<>>
  /\ edgeOf = "none"
  /\ drawn = <<>>

Section(seg, isBridge) == [Path |-> seg, Bridge |-> isBridge]

\* `for _, path := range bridges`: the Sections appended for the bridges bs,
\* given n bridges made so far
RECURSIVE BridgeLoopUnflagged(_, _)
BridgeLoopUnflagged(bs, n) ==
  IF bs = <<>> THEN <<>>
  ELSE IF maxBridges >= 0 /\ n >= maxBridges THEN <<>>
  ELSE LET blen == ISqrt(SegSqLen(Head(bs))) IN
       IF MaxBridgeLength > 0 /\ blen > MaxBridgeLength
         THEN BridgeLoopUnflagged(Tail(bs), n)
       ELSE IF MinBridgeLength > blen THEN BridgeLoopUnflagged(Tail(bs), n)
       ELSE <<Section(Head(bs), FALSE)>> \o BridgeLoopUnflagged(Tail(bs), n + 1)

RECURSIVE BridgeLoop(_, _)
BridgeLoop(bs, n) ==
  IF bs = <<>> THEN <<>>
  ELSE IF maxBridges >= 0 /\ n >= maxBridges THEN <<>>
  ELSE LET blen == ISqrt(SegSqLen(Head(bs))) IN
       IF MaxBridgeLength > 0 /\ blen > MaxBridgeLength THEN BridgeLoop(Tail(bs), n)
       ELSE IF MinBridgeLength > blen THEN BridgeLoop(Tail(bs), n)
       ELSE <<Section(Head(bs), TRUE)>> \o BridgeLoop(Tail(bs), n + 1)

RoadSections(rs) == [n \in 1..Len(rs) |-> Section(rs[n], FALSE)]

\* addMinorRoads leaves out a road run whose end points share an x or a y
Slanted(seg) == ~(seg[1].Y = seg[2].Y \/ seg[1].X = seg[2].X)

DrawCalls(secs) ==
  [n \in 1..Len(secs) |->
     <<IF secs[n].Bridge THEN "bridge" ELSE "road", secs[n].Path>>]

\* lineSegments(edge[0], edge[1], nil) returned nothing to draw: `continue`
\* (the same test in addMainRoads and addMinorRoads)
SkipEdge ==
  /\ linePc = "done"
  /\ Len(roads) + Len(bridges) = 0
  /\ linePc' = "recorded"
  /\ UNCHANGED <<start, end, hasSite, kinds, terrain, mes, i, prevIndex,
                 prevEnum, roads, bridges, walls>>
  /\ UNCHANGED <<sfVars, roadVars, circVars, buildVars, distVars, wallVars, towerVars, newVars, mapVars, genVars, repairVars, placeVars>>

\* addMainRoads, the rest of the body of `for _, edge := range s.Edges()`
RecordMainEdge ==
  /\ linePc = "done" /\ ~hasSite
  /\ Len(roads) + Len(bridges) > 0
  /\ \E sorted \in SortedByLength(bridges) :
       LET made == BridgeLoop(sorted, createdBridges) IN
       /\ Sections' = RoadSections(roads) \o made
       /\ createdBridges' = createdBridges + Len(made)
  /\ drawn' = drawn \o DrawCalls(Sections')
  /\ edgeOf' = "main"
  /\ linePc' = "recorded"
  /\ UNCHANGED <<start, end, hasSite, kinds, terrain, mes, i, prevIndex,
                 prevEnum, roads, bridges, walls>>
  /\ UNCHANGED <<maxBridges, MinBridgeLength, MaxBridgeLength>>
  /\ UNCHANGED <<sfVars, circVars, buildVars, distVars, wallVars, towerVars, newVars, mapVars, genVars, repairVars, placeVars>>

\* addMinorRoads, the rest of the body of `for _, edge := range block.Edges()`
RecordMinorEdge ==
  /\ linePc = "done" /\ hasSite
  /\ Len(roads) + Len(bridges) > 0
  /\ \E sorted \in SortedByLength(bridges) :
       LET made == BridgeLoop(sorted, createdBridges) IN
       /\ Sections' = RoadSections(SelectSeq(roads, Slanted)) \o made
       /\ createdBridges' = createdBridges + Len(made)
  /\ drawn' = drawn \o DrawCalls(Sections')
  /\ edgeOf' = "minor"
  /\ linePc' = "recorded"
  /\ UNCHANGED <<start, end, hasSite, kinds, terrain, mes, i, prevIndex,
                 prevEnum, roads, bridges, walls>>
  /\ UNCHANGED <<maxBridges, MinBridgeLength, MaxBridgeLength>>
  /\ UNCHANGED <<sfVars, circVars, buildVars, distVars, wallVars, towerVars, newVars, mapVars, genVars, repairVars, placeVars>>

--------------------------------------------------------------------------
\* cell.Circut / deletionMethod
\*
\* The diagrams are those of sites set on a grid: their cells are the
\* rectangles cut out of the bounds by vertical and horizontal bisectors.
\* Edges() of a cell is the closed walk round its four corners.

Rect(x0, y0, x1, y1) == [Min |-> Pt(x0, y0), Max |-> Pt(x1, y1)]

\* the cells left by cutting the bounds b at x in cx and at y in cy
GridCells(b, cx, cy) ==
  LET xb == cx \cup {b.Min.X, b.Max.X}
      yb == cy \cup {b.Min.Y, b.Max.Y}
      NextUp(S, v) == CHOOSE w \in S : w > v /\ \A u \in S : u > v => w <= u
  IN { Rect(x, y, NextUp(xb, x), NextUp(yb, y)) :
         x \in xb \ {b.Max.X}, y \in yb \ {b.Max.Y} }

\* vSite.Edges() of a rectangular cell
Edges(c) ==
  << <<Pt(c.Min.X, c.Min.Y), Pt(c.Max.X, c.Min.Y)>>,
     <<Pt(c.Max.X, c.Min.Y), Pt(c.Max.X, c.Max.Y)>>,
     <<Pt(c.Max.X, c.Max.Y), Pt(c.Min.X, c.Max.Y)>>,
     <<Pt(c.Min.X, c.Max.Y), Pt(c.Min.X, c.Min.Y)>> >>

EdgeSet(cs) == {Edges(c)[n] : c \in cs, n \in 1..4}

\* onBorder
onBorder(p) ==
  \/ p.X <= bnds.Min.X + 1 \/ p.X >= bnds.Max.X - 1
  \/ p.Y <= bnds.Min.Y + 1 \/ p.Y >= bnds.Max.Y - 1

\* toEdgeID: the end points put in (x, then y) order
toEdgeIDDirected(a, b) == <<a, b>>

toEdgeID(a, b) ==
  IF b.X < a.X THEN <<b, a>>
  ELSE IF a.X = b.X /\ b.Y < a.Y THEN <<b, a>>
  ELSE <<a, b>>

edgeOwnedOutside == {toEdgeID(e[1], e[2]) : e \in EdgeSet(outside)}
vertOwnedOutside == {e[1] : e \in EdgeSet(outside)} \cup {e[2] : e \in EdgeSet(outside)}

\* the links of the adjacency map: every inside edge, in both directions
Links == EdgeSet(inside) \cup {<<e[2], e[1]>> : e \in EdgeSet(inside)}
Keys == {l[1] : l \in Links}

IdleCircut ==
  /\ bnds = Rect(0, 0, 0, 0) /\ cells = {} /\ inside = {} /\ outside = {}
  /\ neighbours = <<>> /\ seen = {} /\ wall = {} /\ circPc = "idle"

InitCircut ==
  /\ bnds = Rect(0, 0, CircSize, CircSize)
  /\ \E cx \in SUBSET (1..(CircSize - 1)), cy \in SUBSET (1..(CircSize - 1)) :
       /\ (Cardinality(cx) + 1) * (Cardinality(cy) + 1) <= CircMaxCells
       /\ cells = GridCells(bnds, cx, cy)
  /\ \E role \in [cells -> {"inside", "outside", "other"}] :
       /\ inside = {c \in cells : role[c] = "inside"}
       /\ outside = {c \in cells : role[c] = "outside"}
  /\ neighbours = <<>>
  /\ seen = {}
  /\ wall = {}
  /\ circPc = "collect"

\* the loops that fill edgeOwnedOutside, vertOwnedOutside and neighbours
CircutCollect ==
  /\ circPc = "collect"
  /\ neighbours' = [l \in Links |-> TRUE]
  /\ circPc' = "delete"
  /\ UNCHANGED <<bnds, cells, inside, outside, seen, wall>>
  /\ UNCHANGED <<sfVars, lineVars, roadVars, buildVars, distVars, wallVars, towerVars, newVars, mapVars, genVars, repairVars, placeVars>>

\* does the link (v, n) survive: the two `continue` tests
Kept(v, n) ==
  \/ (v \in vertOwnedOutside /\ n \in vertOwnedOutside
        /\ toEdgeID(v, n) \in edgeOwnedOutside)
  \/ (onBorder(n) /\ onBorder(v))

\* one turn of `for v, partners := range neighbours`, for any key not yet
\* visited; a turn of the inner loop writes the two entries of its own link
\* (v, n) only, so the order of the partners does not show
CircutDelete ==
  /\ circPc = "delete"
  /\ \E v \in Keys \ seen :
       /\ neighbours' =
            [l \in Links |->
               IF /\ (l[1] = v \/ l[2] = v)
                  /\ neighbours[<<v, IF l[1] = v THEN l[2] ELSE l[1]>>]
                  /\ ~Kept(v, IF l[1] = v THEN l[2] ELSE l[1])
                 THEN FALSE
                 ELSE neighbours[l]]
       /\ seen' = seen \cup {v}
  /\ UNCHANGED <<bnds, cells, inside, outside, wall, circPc>>
  /\ UNCHANGED <<sfVars, lineVars, roadVars, buildVars, distVars, wallVars, towerVars, newVars, mapVars, genVars, repairVars, placeVars>>

\* the loop that copies the valid links into wall; return
CircutReturn ==
  /\ circPc = "delete" /\ seen = Keys
  /\ wall' = {l \in Links : neighbours[l]}
  /\ circPc' = "done"
  /\ UNCHANGED <<bnds, cells, inside, outside, neighbours, seen>>
  /\ UNCHANGED <<sfVars, lineVars, roadVars, buildVars, distVars, wallVars, towerVars, newVars, mapVars, genVars, repairVars, placeVars>>

--------------------------------------------------------------------------
\* Citygraph.addBuildingsToDistrict: the ring walk that fills one district
\* with buildings.  The district's cell is a rectangle of the diagram; the
\* map is larger than the cell on every side, so that every point read or
\* written is within the map.

\* the points of the map
MapGrid == {Pt(x, y) : x \in 0..(BuildMaxSide + 3), y \in 0..(BuildMaxSide + 3)}

\* Polygon.intersectsWithRaycast: the loop that moves the point off the
\* y of an end point
RECURSIVE RayMoved(_, _, _)
RayMoved(py, sy, ey) ==
  IF py = sy \/ py = ey THEN RayMoved(py + 1, sy, ey) ELSE py

\* Polygon.intersectsWithRaycast.  Where the slopes are compared the two
\* float64 quotients have the same sign or are +Inf, so the comparison is a
\* cross-multiplication.
intersectsWithRaycast(p, a, b) ==
  LET s == IF a.Y > b.Y THEN b ELSE a
      e == IF a.Y > b.Y THEN a ELSE b
      py == RayMoved(p.Y, s.Y, e.Y)
      slopes == \/ p.X = s.X
                \/ (py - s.Y) * (e.X - s.X) >= (e.Y - s.Y) * (p.X - s.X)
  IN IF py < s.Y \/ py > e.Y THEN FALSE
     ELSE IF s.X > e.X
       THEN (IF p.X > s.X THEN FALSE ELSE IF p.X < e.X THEN TRUE ELSE slopes)
       ELSE (IF p.X > e.X THEN FALSE ELSE IF p.X < s.X THEN TRUE ELSE slopes)

\* Polygon.Contains for the polygon of the cell c: the parity of the edges
\* the ray crosses
Contains(c, p) ==
  Cardinality({n \in 1..4 :
     intersectsWithRaycast(p, Edges(c)[n][1], Edges(c)[n][2])}) % 2 = 1

\* imageMap.BuildingID: -1 with an error out of the map
BuildingID(p) == IF p \in MapGrid THEN buildingID[p] ELSE -1

\* districtBuilder.buildingFits
buildingFits(ox, oy, b) ==
  \A x \in b.Area.Min.X..(b.Area.Max.X - 1),
     y \in (b.Area.Min.Y - 1)..b.Area.Max.Y :
       LET p == Pt(x + ox, y + oy)
       IN /\ p \notin structures
          /\ BuildingID(p) = 0
          /\ p \in canBuildOn
          /\ Contains(siteBnds, p)

\* imageMap.setBuilding
setBuilding(x, y, b) ==
  [p \in MapGrid |->
     IF /\ p.X - x \in b.Area.Min.X..(b.Area.Max.X - 1)
        /\ p.Y - y \in b.Area.Min.Y..(b.Area.Max.Y - 1)
       THEN b.ID
       ELSE buildingID[p]]

\* image.Rect: the rectangle with its corners put in order
imageRect(x0, y0, x1, y1) ==
  Rect(IF x0 > x1 THEN x1 ELSE x0, IF y0 > y1 THEN y1 ELSE y0,
       IF x0 > x1 THEN x0 ELSE x1, IF y0 > y1 THEN y0 ELSE y1)

\* District.addBuilding: the Building appended to d.Buildings
addBuilding(x, y, b) ==
  [ID |-> b.ID,
   Area |-> imageRect(x, y, b.Area.Max.X - b.Area.Min.X, b.Area.Max.Y - b.Area.Min.Y)]

\* newDistrictBuilder: db.total
RECURSIVE total(_)
total(n) == IF n = 0 THEN 0 ELSE total(n - 1) + dcfgBuildings[n].Probability

\* newDistrictBuilder: db.must, MinInDistrict entries of each footprint in turn
RECURSIVE mustOf(_, _)
mustOf(cfg, n) ==
  IF n = 0 THEN <<>>
  ELSE mustOf(cfg, n - 1) \o [k \in 1..cfg[n].MinInDistrict |-> n]

\* chooseBuilding: the range loop over d.must; 0 if no entry fits
mustLoop(x, y) ==
  IF \E n \in 1..Len(must) : buildingFits(x, y, dcfgBuildings[must[n]])
    THEN CHOOSE n \in 1..Len(must) :
           /\ buildingFits(x, y, dcfgBuildings[must[n]])
           /\ \A m \in 1..(n - 1) : ~buildingFits(x, y, dcfgBuildings[must[m]])
    ELSE 0

\* chooseBuilding: the range loop over d.cfg.Buildings.  The weights are
\* whole numbers and rv lies in [r / total, (r + 1) / total), so that
\* sofar > rv says the weights added so far exceed r.
RECURSIVE randomLoop(_, _, _, _, _)
randomLoop(k, sofar, x, y, r) ==
  IF k > Len(dcfgBuildings) THEN 0
  ELSE LET b == dcfgBuildings[k]
           sf == sofar + b.Probability
       IN IF b.Probability <= 0 THEN randomLoop(k + 1, sofar, x, y, r)
          ELSE IF b.MaxInDistrict > 0 /\ count[k] >= b.MaxInDistrict
            THEN randomLoop(k + 1, sf, x, y, r)
          ELSE IF ~buildingFits(x, y, b) THEN randomLoop(k + 1, sf, x, y, r)
          ELSE IF sf > r THEN k
          ELSE randomLoop(k + 1, sf, x, y, r)

\* chooseBuilding: the footprint chosen (0 = nil) and the builder after it
chooseBuilding(x, y, r) ==
  LET m == mustLoop(x, y)
      k == randomLoop(1, 0, x, y, r)
  IN IF m # 0
       THEN [b |-> must[m],
             must |-> [n \in 1..(Len(must) - 1) |->
                         IF n < m THEN must[n] ELSE must[n + 1]],
             count |-> [count EXCEPT ![must[m]] = @ + 1]]
     ELSE IF k # 0
       THEN [b |-> k, must |-> must, count |-> [count EXCEPT ![k] = @ + 1]]
     ELSE [b |-> 0, must |-> must, count |-> count]

\* the footprints and the quotas <<MinInDistrict, MaxInDistrict, Probability>>
\* a BuildingConfig is drawn from
Footprints == {Rect(0, 0, 1, 1), Rect(0, 0, 2, 1), Rect(0, 0, 1, 2)}
Quotas == {<<0, 0, 1, 1>>, <<1, 0, 0, 0>>, <<0, 1, 1, 0>>}

BuildingConfig(id, area, q) ==
  [ID |-> id, Area |-> area, MinInDistrict |-> q[1], MaxInDistrict |-> q[2],
   Probability |-> q[3], MaxInCity |-> q[4]]

\* dcfg.Buildings: one footprint, or two different ones; their IDs are 1, 2
BuildingLists ==
  {<<BuildingConfig(1, a, q)>> : a \in Footprints, q \in Quotas}
  \cup {l \in {<<BuildingConfig(1, a1, q1), BuildingConfig(2, a2, q2)>> :
                  a1 \in Footprints, q1 \in Quotas, a2 \in Footprints, q2 \in Quotas} :
          l[1].Area # l[2].Area}

\* the points of the row below the top of the cell, in its last three
\* columns, where the water or the road of the start state may lie
BuildSpots(c) == {Pt(x, c.Min.Y + 1) : x \in (c.Max.X - 2)..c.Max.X}

IdleBuild ==
  /\ siteBnds = Rect(0, 0, 0, 0) /\ dcfgBuildings = <<>> /\ dcfgCentral = <<>>
  /\ canBuildOn = {} /\ structures = {} /\ buildingID = <<>>
  /\ must = <<>> /\ count = <<>> /\ Buildings = <<>> /\ BuildingsByID = <<>>
  /\ ring = 0 /\ ringAt = 0 /\ ringPc = "idle" /\ placed = <<>>

\* dcfg.Central: none, or a footprint whose ID is that of the first entry of
\* dcfg.Buildings
CentralConfigs == {<<>>, <<BuildingConfig(1, Rect(0, 0, 1, 1), <<0, 1, 0, 0>>)>>}

\* addBuildingsToDistrict on entry: newDistrictBuilder
InitBuild ==
  /\ \E w \in 3..BuildMaxSide, h \in 3..BuildMaxSide :
       siteBnds = Rect(1, 1, 1 + w, 1 + h)
  /\ dcfgBuildings \in BuildingLists
  /\ dcfgCentral \in CentralConfigs
  /\ \E p \in BuildSpots(siteBnds) :
       \/ (canBuildOn = MapGrid /\ structures = {})
       \/ (canBuildOn = MapGrid \ {p} /\ structures = {})
       \/ (canBuildOn = MapGrid /\ structures = {p})
  /\ buildingID = [p \in MapGrid |-> 0]
  /\ must = mustOf(dcfgBuildings, Len(dcfgBuildings))
  /\ count = [k \in 1..Len(dcfgBuildings) |-> 0]
  /\ Buildings = <<>>
  /\ BuildingsByID = [k \in 1..Len(dcfgBuildings) |-> 0]
  /\ ring = 0
  /\ ringAt = siteBnds.Min.X
  /\ ringPc = "central"
  /\ placed = <<>>

\* the pixels of the cell in the order of the first loops of
\* addBuildingsToDistrict: rows from Min.Y, each from Min.X
scanAt(n) ==
  LET w == siteBnds.Max.X - siteBnds.Min.X
  IN Pt(siteBnds.Min.X + ((n - 1) % w), siteBnds.Min.Y + ((n - 1) \div w))

\* the site of the district: the middle of its cell
siteAt == Pt((siteBnds.Min.X + siteBnds.Max.X) \div 2, (siteBnds.Min.Y + siteBnds.Max.Y) \div 2)

\* the loops that look for centralCoord, from pixel n on: <<>> for nil or
\* <<centralCoord>>
RECURSIVE centralScan(_, _, _)
centralScan(n, centralCoord, fromCentre) ==
  IF n > (siteBnds.Max.X - siteBnds.Min.X) * (siteBnds.Max.Y - siteBnds.Min.Y)
    THEN centralCoord
  ELSE LET p == scanAt(n)
           d == ISqrt(SqDist(siteAt.X, siteAt.Y, p.X, p.Y))
       IN IF d > fromCentre THEN centralScan(n + 1, centralCoord, fromCentre)
          ELSE IF buildingFits(p.X, p.Y, dcfgCentral[1])
            THEN centralScan(n + 1, <<p>>, d)
          ELSE centralScan(n + 1, centralCoord, fromCentre)

\* addBuildingsToDistrict before the ring walk: the central building
PlaceCentral ==
  /\ ringPc = "central"
  /\ LET at == IF dcfgCentral = <<>> THEN <<>>
               ELSE centralScan(1, <<>>, siteBnds.Max.X + siteBnds.Max.Y)
     IN IF at # <<>>
          THEN /\ Buildings' = Append(Buildings, addBuilding(at[1].X, at[1].Y, dcfgCentral[1]))
               /\ BuildingsByID' = [BuildingsByID EXCEPT ![dcfgCentral[1].ID] = @ + 1]
               /\ buildingID' = setBuilding(at[1].X, at[1].Y, dcfgCentral[1])
          ELSE UNCHANGED <<Buildings, BuildingsByID, buildingID>>
  /\ ringPc' = "top"
  /\ UNCHANGED <<siteBnds, dcfgBuildings, dcfgCentral, canBuildOn, structures, must, count,
                 ring, ringAt, placed>>
  /\ UNCHANGED <<sfVars, lineVars, roadVars, circVars, distVars, wallVars, towerVars, newVars, mapVars, genVars, repairVars, placeVars>>

\* ilimit / 2
ringLimit ==
  LET dx == siteBnds.Max.X - siteBnds.Min.X
      dy == siteBnds.Max.Y - siteBnds.Min.Y
  IN (IF dy < dx THEN dy ELSE dx) \div 2

\* one `if c.rng.Float64() < dcfg.BuildingDensity { ... }` of the ring walk:
\* chooseBuilding at (tx, ty), then setBuilding and addBuilding at (wx, wy)
Attempt(tx, ty, wx, wy) ==
  \E dense \in BOOLEAN, r \in 0..(IF total(Len(dcfgBuildings)) = 0 THEN 0
                                  ELSE total(Len(dcfgBuildings)) - 1) :
    LET c == chooseBuilding(tx, ty, r)
    IN IF dense /\ c.b # 0
         THEN /\ must' = c.must
              /\ count' = c.count
              /\ buildingID' = setBuilding(wx, wy, dcfgBuildings[c.b])
              /\ Buildings' = Append(Buildings, addBuilding(wx, wy, dcfgBuildings[c.b]))
              /\ BuildingsByID' = [BuildingsByID EXCEPT ![c.b] = @ + 1]
              /\ placed' = Append(placed,
                   [at |-> Pt(wx, wy), b |-> c.b, edge |-> ringPc,
                    fits |-> buildingFits(wx, wy, dcfgBuildings[c.b])])
         ELSE UNCHANGED <<must, count, buildingID, Buildings, BuildingsByID, placed>>

\* the top edge of ring i, at x
PlaceTop ==
  /\ ringPc = "top"
  /\ Attempt(ringAt, siteBnds.Min.Y + ring, ringAt, siteBnds.Min.Y + ring)
  /\ ringPc' = "bottom"
  /\ UNCHANGED <<siteBnds, dcfgBuildings, dcfgCentral, canBuildOn, structures, ring, ringAt>>
  /\ UNCHANGED <<sfVars, lineVars, roadVars, circVars, distVars, wallVars, towerVars, newVars, mapVars, genVars, repairVars, placeVars>>

\* the bottom edge of ring i, at x; x++ and, past the last x, the first y
PlaceBottom ==
  /\ ringPc = "bottom"
  /\ Attempt(ringAt, siteBnds.Max.Y - ring, ringAt, siteBnds.Max.Y - 1 - ring)
  /\ IF ringAt + 1 < siteBnds.Max.X - ring
       THEN ringAt' = ringAt + 1 /\ ringPc' = "top"
       ELSE ringAt' = siteBnds.Min.Y + ring /\ ringPc' = "left"
  /\ UNCHANGED <<siteBnds, dcfgBuildings, dcfgCentral, canBuildOn, structures, ring>>
  /\ UNCHANGED <<sfVars, lineVars, roadVars, circVars, distVars, wallVars, towerVars, newVars, mapVars, genVars, repairVars, placeVars>>

\* the left edge of ring i, at y
PlaceLeft ==
  /\ ringPc = "left"
  /\ Attempt(siteBnds.Min.X + ring, ringAt, siteBnds.Min.X + ring, ringAt)
  /\ ringPc' = "right"
  /\ UNCHANGED <<siteBnds, dcfgBuildings, dcfgCentral, canBuildOn, structures, ring, ringAt>>
  /\ UNCHANGED <<sfVars, lineVars, roadVars, circVars, distVars, wallVars, towerVars, newVars, mapVars, genVars, repairVars, placeVars>>

\* the right edge of ring i, at y; y++ and, past the last y, the next ring
PlaceRight ==
  /\ ringPc = "right"
  /\ Attempt(siteBnds.Max.X - ring, ringAt, siteBnds.Max.X - 1 - ring, ringAt)
  /\ IF ringAt + 1 < siteBnds.Max.Y - ring
       THEN ringAt' = ringAt + 1 /\ ringPc' = "left" /\ ring' = ring
       ELSE /\ ring' = ring + 1
            /\ ringAt' = siteBnds.Min.X + ring + 1
            /\ ringPc' = IF ring + 1 < ringLimit THEN "top" ELSE "done"
  /\ UNCHANGED <<siteBnds, dcfgBuildings, dcfgCentral, canBuildOn, structures>>
  /\ UNCHANGED <<sfVars, lineVars, roadVars, circVars, distVars, wallVars, towerVars, newVars, mapVars, genVars, repairVars, placeVars>>

--------------------------------------------------------------------------
\* Citygraph.build up to verifyDistrictLocations: the user's district sites,
\* randomDistricts and the dock repair.  Three of the district types stand
\* for all of them, in the order of allDistricts.

allDistricts == <<"civic", "docks", "empty">>
Docks == "docks"
Empty == "empty"
DistTypes == {allDistricts[n] : n \in 1..Len(allDistricts)}

\* DistrictType.desirability: the ID of the type, and len(allDistricts) + 1
\* for Empty
desirability(t) == IF t = "civic" THEN 2 ELSE IF t = Docks THEN 13 ELSE 22

\* the <<MinInCity, MaxInCity, Probability>> a DistrictConfig is drawn from
DistQuotas == {<<0, 0, 1>>, <<1, 0, 1>>, <<0, 1, 1>>, <<1, 1, 0>>}

\* c.bcfg.Districts[t]: ok is false where the map has no entry for t
DistrictConfigs ==
  {[ok |-> FALSE, MinInCity |-> 0, MaxInCity |-> 0, Probability |-> 0]}
  \cup {[ok |-> TRUE, MinInCity |-> q[1], MaxInCity |-> q[2], Probability |-> q[3]] :
          q \in DistQuotas}

IdleDistricts ==
  /\ DistrictSites = <<>> /\ DesiredDistricts = 0 /\ bcfgDistricts = <<>>
  /\ Districts = <<>> /\ DistrictsByType = <<>>
  /\ toSet = <<>> /\ dtypes = <<>> /\ tempStats = <<>>
  /\ docks = <<>> /\ potentialdock = <<>> /\ distPc = "idle"
  /\ dockSuited = {} /\ retyped = <<>>

\* the Citygraph New has made, before build
InitDistricts ==
  /\ DistrictSites \in {<<>>} \cup SeqsUpTo(DistTypes, DistMaxSites)
  /\ DesiredDistricts \in 1..DistMaxDesired
  /\ bcfgDistricts \in [DistTypes -> DistrictConfigs]
  /\ Districts = <<>>
  /\ DistrictsByType = [t \in DistTypes |-> 0]
  /\ toSet = <<>>
  /\ dtypes = <<>>
  /\ tempStats = [t \in DistTypes |-> 0]
  /\ docks = <<>>
  /\ potentialdock = <<>>
  /\ dockSuited = {}
  /\ retyped = <<>>
  /\ distPc = "sites"

\* CityStats.count
statsCount(t) == DistrictsByType[t]

\* the subsequence of s at the indices where keep holds
RECURSIVE SelectAt(_, _, _)
SelectAt(s, keep, n) ==
  IF n = 0 THEN <<>>
  ELSE IF keep[n] THEN Append(SelectAt(s, keep, n - 1), s[n])
  ELSE SelectAt(s, keep, n - 1)

\* build: the loop over c.cfg.DistrictSites.  AddSite refuses a site the
\* builder's filters reject; every other one becomes a district of the
\* type the user gave.
AddDistrictSites ==
  /\ distPc = "sites"
  /\ \E ok \in [1..Len(DistrictSites) -> BOOLEAN] :
       LET added == SelectAt(DistrictSites, ok, Len(DistrictSites))
       IN /\ Districts' = [n \in 1..Len(added) |-> [Type |-> added[n], user |-> TRUE]]
          /\ DistrictsByType' =
               [t \in DistTypes |-> Cardinality({n \in 1..Len(added) : added[n] = t})]
  /\ distPc' = "random"
  /\ UNCHANGED <<DistrictSites, DesiredDistricts, bcfgDistricts, toSet, dtypes,
                 tempStats, docks, potentialdock>>
  /\ UNCHANGED <<dockSuited, retyped>>
  /\ UNCHANGED <<sfVars, lineVars, roadVars, circVars, buildVars, wallVars, towerVars, newVars, mapVars, genVars, repairVars, placeVars>>

\* randomDistricts: "we have enough sites already"; verifyDistrictLocations
\* of no districts returns nil
RandomDistrictsEnough ==
  /\ distPc = "random"
  /\ Len(Districts) >= DesiredDistricts
  /\ distPc' = "done"
  /\ UNCHANGED <<DistrictSites, DesiredDistricts, bcfgDistricts, Districts,
                 DistrictsByType, toSet, dtypes, tempStats, docks, potentialdock>>
  /\ UNCHANGED <<dockSuited, retyped>>
  /\ UNCHANGED <<sfVars, lineVars, roadVars, circVars, buildVars, wallVars, towerVars, newVars, mapVars, genVars, repairVars, placeVars>>

\* randomDistricts: the types appended to meet MinInCity, type by type in
\* the order of allDistricts
RECURSIVE minTypes(_)
minTypes(n) ==
  IF n = 0 THEN <<>>
  ELSE LET t == allDistricts[n]
           dc == bcfgDistricts[t]
       IN IF ~dc.ok THEN minTypes(n - 1)
          ELSE minTypes(n - 1) \o
                 [k \in 1..(IF dc.MinInCity > statsCount(t)
                              THEN dc.MinInCity - statsCount(t) ELSE 0) |-> t]

\* how many sites the loop over AddRandomSite can add at most: it stops as
\* soon as len(toSet) + len(c.Districts) >= DesiredDistricts, and
\* newDistrict has appended every one of toSet to c.Districts
RECURSIVE mostSites(_)
mostSites(n) ==
  IF n + (Len(Districts) + n) >= DesiredDistricts THEN n ELSE mostSites(n + 1)

\* randomDistricts from the first loop to the test of len(toSet) against
\* len(dtypes).  Each of the DesiredDistricts * 5 calls of AddRandomSite
\* adds a site or not.
RandomDistrictsSites ==
  /\ distPc = "random"
  /\ Len(Districts) < DesiredDistricts
  /\ \E n \in 0..mostSites(0) :
       /\ Districts' = Districts \o [k \in 1..n |-> [Type |-> "", user |-> FALSE]]
       /\ toSet' = [k \in 1..n |-> Len(Districts) + k]
       /\ dtypes' = minTypes(Len(allDistricts))
       /\ tempStats' = [t \in DistTypes |->
                          Cardinality({k \in 1..Len(dtypes') : dtypes'[k] = t})]
       /\ distPc' = IF n < Len(dtypes') THEN "failed" ELSE "fill"
  /\ UNCHANGED <<DistrictSites, DesiredDistricts, bcfgDistricts, DistrictsByType,
                 docks, potentialdock>>
  /\ UNCHANGED <<dockSuited, retyped>>
  /\ UNCHANGED <<sfVars, lineVars, roadVars, circVars, buildVars, wallVars, towerVars, newVars, mapVars, genVars, repairVars, placeVars>>

\* chooseDistrictType: the types some rv in [0, 1) returns.  Every type with
\* a positive Probability has its share of [0, 1); Empty is the fallback
\* when no type has one.
chooseDistrictType ==
  LET drawable == {t \in DistTypes :
                     bcfgDistricts[t].ok /\ bcfgDistricts[t].Probability > 0}
  IN IF drawable = {} THEN {Empty} ELSE drawable

\* randomDistricts: the draws that leave the inner `for` of the fill loop
fillTypes ==
  {t \in chooseDistrictType :
     /\ bcfgDistricts[t].ok
     /\ ~(/\ bcfgDistricts[t].MaxInCity > 0
          /\ statsCount(t) + tempStats[t] >= bcfgDistricts[t].MaxInCity)}

\* randomDistricts: one turn of `for i := len(dtypes); i < len(toSet); i++`
RandomDistrictsFill ==
  /\ distPc = "fill"
  /\ Len(dtypes) < Len(toSet)
  /\ \E t \in fillTypes :
       /\ dtypes' = Append(dtypes, t)
       /\ tempStats' = [tempStats EXCEPT ![t] = @ + 1]
  /\ UNCHANGED <<DistrictSites, DesiredDistricts, bcfgDistricts, Districts,
                 DistrictsByType, toSet, docks, potentialdock, distPc>>
  /\ UNCHANGED <<dockSuited, retyped>>
  /\ UNCHANGED <<sfVars, lineVars, roadVars, circVars, buildVars, wallVars, towerVars, newVars, mapVars, genVars, repairVars, placeVars>>

\* randomDistricts: the inner `for` of the fill loop when every draw is
\* refused; it never ends
RandomDistrictsSpin ==
  /\ distPc = "fill"
  /\ Len(dtypes) < Len(toSet)
  /\ fillTypes = {}
  /\ distPc' = "spin"
  /\ UNCHANGED <<DistrictSites, DesiredDistricts, bcfgDistricts, Districts,
                 DistrictsByType, toSet, dtypes, tempStats, docks, potentialdock>>
  /\ UNCHANGED <<dockSuited, retyped>>
  /\ UNCHANGED <<sfVars, lineVars, roadVars, circVars, buildVars, wallVars, towerVars, newVars, mapVars, genVars, repairVars, placeVars>>

\* sortTypesByDesirability
sortTypesByDesirability(s) ==
  LET q == CHOOSE f \in [1..Len(allDistricts) -> DistTypes] :
             \A a, b \in 1..Len(allDistricts) :
               a < b => desirability(f[a]) < desirability(f[b])
      run(n) == [k \in 1..Cardinality({j \in 1..Len(s) : s[j] = q[n]}) |-> q[n]]
  IN run(1) \o run(2) \o run(3)

\* randomDistricts: the sorts and the loop that zips types to sites.  The
\* order sortDistrictsByDistance leaves toSet in does not show: the sites
\* of toSet differ in nothing else the model holds.
RandomDistrictsZip ==
  /\ distPc = "fill"
  /\ Len(dtypes) = Len(toSet)
  /\ LET sorted == sortTypesByDesirability(dtypes)
     IN /\ dtypes' = sorted
        /\ Districts' = [n \in 1..Len(Districts) |->
                           IF \E k \in 1..Len(toSet) : toSet[k] = n
                             THEN [Districts[n] EXCEPT
                                     !.Type = sorted[CHOOSE k \in 1..Len(toSet) : toSet[k] = n]]
                             ELSE Districts[n]]
        /\ DistrictsByType' =
             [t \in DistTypes |->
                DistrictsByType[t] + Cardinality({k \in 1..Len(sorted) : sorted[k] = t})]
  /\ distPc' = "verify"
  /\ UNCHANGED <<DistrictSites, DesiredDistricts, bcfgDistricts, toSet, tempStats,
                 docks, potentialdock>>
  /\ UNCHANGED <<dockSuited, retyped>>
  /\ UNCHANGED <<sfVars, lineVars, roadVars, circVars, buildVars, wallVars, towerVars, newVars, mapVars, genVars, repairVars, placeVars>>

\* verifyDistrictLocations, step 0: a dock we have to move
mustMove(n, suited) == Districts[n].Type = Docks /\ ~suited

\* verifyDistrictLocations, step 0: a district we could make a dock
couldBeDockUnsuited(n, suited) == Districts[n].Type # Docks

couldBeDock(n, suited) == Districts[n].Type # Docks /\ suited

\* verifyDistrictLocations, step 0: suit[k] says Stats.DockSuitable of
\* toSet[k] has reached MinDockSize
VerifyCollect ==
  /\ distPc = "verify"
  /\ \E suit \in [1..Len(toSet) -> BOOLEAN] :
       /\ dockSuited' = {toSet[k] : k \in {j \in 1..Len(toSet) : suit[j]}}
       /\ docks' = SelectAt(toSet,
                     [k \in 1..Len(toSet) |-> mustMove(toSet[k], suit[k])], Len(toSet))
       /\ potentialdock' = SelectAt(toSet,
                     [k \in 1..Len(toSet) |-> couldBeDock(toSet[k], suit[k])], Len(toSet))
  /\ retyped' = [n \in 1..Len(Districts) |-> 0]
  /\ distPc' = IF docks' = <<>> THEN "done" ELSE "docks"
  /\ UNCHANGED <<DistrictSites, DesiredDistricts, bcfgDistricts, Districts,
                 DistrictsByType, toSet, dtypes, tempStats>>
  /\ UNCHANGED <<sfVars, lineVars, roadVars, circVars, buildVars, wallVars, towerVars, newVars, mapVars, genVars, repairVars, placeVars>>

\* a sequence without its last element
Front(s) == SubSeq(s, 1, Len(s) - 1)

\* verifyDistrictLocations, idea #1: swap types with the last potential dock
DockSwap ==
  /\ distPc = "docks"
  /\ Len(potentialdock) > 0
  /\ LET d == docks[Len(docks)]
         last == potentialdock[Len(potentialdock)]
     IN /\ Districts' = [Districts EXCEPT ![last].Type = Docks,
                                          ![d].Type = Districts[last].Type]
        /\ retyped' = [retyped EXCEPT ![last] = @ + 1, ![d] = @ + 1]
  /\ docks' = Front(docks)
  /\ potentialdock' = Front(potentialdock)
  /\ distPc' = IF docks' = <<>> THEN "done" ELSE "docks"
  /\ UNCHANGED <<DistrictSites, DesiredDistricts, bcfgDistricts, DistrictsByType,
                 toSet, dtypes, tempStats, dockSuited>>
  /\ UNCHANGED <<sfVars, lineVars, roadVars, circVars, buildVars, wallVars, towerVars, newVars, mapVars, genVars, repairVars, placeVars>>

\* verifyDistrictLocations: minInCity of Docks
docksMinInCity == IF bcfgDistricts[Docks].ok THEN bcfgDistricts[Docks].MinInCity ELSE 0

\* verifyDistrictLocations, idea #2: the draws that leave the inner `for`
reassignTypes ==
  {t \in chooseDistrictType :
     /\ t # Docks
     /\ bcfgDistricts[t].ok
     /\ ~(bcfgDistricts[t].MaxInCity > 0 /\ statsCount(t) >= bcfgDistricts[t].MaxInCity)}

\* verifyDistrictLocations, idea #2: make the district something else
DockReassign ==
  /\ distPc = "docks"
  /\ Len(potentialdock) = 0
  /\ statsCount(Docks) > docksMinInCity
  /\ \E t \in reassignTypes :
       /\ Districts' = [Districts EXCEPT ![docks[Len(docks)]].Type = t]
       /\ DistrictsByType' = [DistrictsByType EXCEPT ![t] = @ + 1, ![Docks] = @ - 1]
  /\ retyped' = [retyped EXCEPT ![docks[Len(docks)]] = @ + 1]
  /\ docks' = Front(docks)
  /\ distPc' = IF docks' = <<>> THEN "done" ELSE "docks"
  /\ UNCHANGED <<DistrictSites, DesiredDistricts, bcfgDistricts, toSet, dtypes,
                 tempStats, potentialdock, dockSuited>>
  /\ UNCHANGED <<sfVars, lineVars, roadVars, circVars, buildVars, wallVars, towerVars, newVars, mapVars, genVars, repairVars, placeVars>>

\* verifyDistrictLocations, idea #2 when every draw is refused: the inner
\* `for` never ends
DockSpin ==
  /\ distPc = "docks"
  /\ Len(potentialdock) = 0
  /\ statsCount(Docks) > docksMinInCity
  /\ reassignTypes = {}
  /\ distPc' = "spin"
  /\ UNCHANGED <<DistrictSites, DesiredDistricts, bcfgDistricts, Districts,
                 DistrictsByType, toSet, dtypes, tempStats, docks, potentialdock>>
  /\ UNCHANGED <<dockSuited, retyped>>
  /\ UNCHANGED <<sfVars, lineVars, roadVars, circVars, buildVars, wallVars, towerVars, newVars, mapVars, genVars, repairVars, placeVars>>

\* verifyDistrictLocations: "unable to find place for docks district"
DockFail ==
  /\ distPc = "docks"
  /\ Len(potentialdock) = 0
  /\ ~(statsCount(Docks) > docksMinInCity)
  /\ docks' = Front(docks)
  /\ distPc' = "failed"
  /\ UNCHANGED <<DistrictSites, DesiredDistricts, bcfgDistricts, Districts,
                 DistrictsByType, toSet, dtypes, tempStats, potentialdock>>
  /\ UNCHANGED <<dockSuited, retyped>>
  /\ UNCHANGED <<sfVars, lineVars, roadVars, circVars, buildVars, wallVars, towerVars, newVars, mapVars, genVars, repairVars, placeVars>>

--------------------------------------------------------------------------
\* New: `return cg, cg.build()`

\* a *Citygraph as the caller sees it
Citygraph(ds) == [isNil |-> FALSE, Districts |-> ds]

nilCitygraph == [isNil |-> TRUE, Districts |-> <<>>]

\* before New returns the caller holds nothing
IdleNew == retCg = nilCitygraph /\ retErr = FALSE

\* build has returned, with an error or (the later phases taken as passed)
\* without; New returns cg and what build returned
NewReturns ==
  /\ distPc \in {"done", "failed"}
  /\ retCg' = Citygraph(Districts)
  /\ retErr' = (distPc = "failed")
  /\ distPc' = "returned"
  /\ UNCHANGED <<DistrictSites, DesiredDistricts, bcfgDistricts, Districts,
                 DistrictsByType, toSet, dtypes, tempStats, docks, potentialdock>>
  /\ UNCHANGED <<dockSuited, retyped>>
  /\ UNCHANGED <<sfVars, lineVars, roadVars, circVars, buildVars, wallVars, towerVars, mapVars, genVars, repairVars, placeVars>>

--------------------------------------------------------------------------
\* Citygraph.addWalls: which districts are inside the city walls.  A
\* district is [HasFortifications, HasCurtainFortifications, far], far being
\* the distance of its Site from c.cfg.Centre.

WallDistricts ==
  {[HasFortifications |-> f, HasCurtainFortifications |-> c, far |-> r] :
     f \in BOOLEAN, c \in BOOLEAN, r \in 0..WallMaxFar}

IdleWalls ==
  /\ wallDists = <<>> /\ MinFortifiedSites = 0
  /\ curtainWall = <<>> /\ insideDists = <<>> /\ outsideDists = <<>>
  /\ needed = 0 /\ wasOutside = {} /\ wallPc = "idle"
  /\ MaxCityGates = 0 /\ Gates = {} /\ dGates = <<>> /\ wallAt = 0

\* addWalls after its first loop has copied the flags of the district
\* configs to the randomly placed districts
InitWalls ==
  /\ wallDists \in SeqsUpTo(WallDistricts, WallMaxDistricts)
  /\ MinFortifiedSites \in 0..(WallMaxDistricts + 1)
  /\ curtainWall = <<>>
  /\ insideDists = <<>>
  /\ outsideDists = <<>>
  /\ needed = 0
  /\ wasOutside = {}
  /\ MaxCityGates \in 0..WallMaxGates
  /\ Gates = {}
  /\ dGates = [n \in 1..Len(wallDists) |-> {}]
  /\ wallAt = 0
  /\ wallPc = "classify"

\* the elements of a sequence
Range(s) == {s[n] : n \in 1..Len(s)}

\* addWalls: the loop that sorts c.Districts into curtainWall, insideDists
\* and outsideDists, and the local `needed`
WallsClassify ==
  /\ wallPc = "classify"
  /\ LET ids == [n \in 1..Len(wallDists) |-> n]
         isCurtain == [n \in 1..Len(wallDists) |-> wallDists[n].HasCurtainFortifications]
         isInside == [n \in 1..Len(wallDists) |->
                        ~wallDists[n].HasCurtainFortifications
                        /\ wallDists[n].HasFortifications]
         isOutside == [n \in 1..Len(wallDists) |->
                         ~wallDists[n].HasCurtainFortifications
                         /\ ~wallDists[n].HasFortifications]
     IN /\ curtainWall' = SelectAt(ids, isCurtain, Len(ids))
        /\ insideDists' = SelectAt(ids, isInside, Len(ids))
        /\ outsideDists' = SelectAt(ids, isOutside, Len(ids))
        /\ wasOutside' = {n \in 1..Len(ids) : isOutside[n]}
  /\ needed' = MinFortifiedSites - Len(insideDists')
  /\ wallPc' = "promote"
  /\ UNCHANGED <<wallDists, MinFortifiedSites>>
  /\ UNCHANGED <<MaxCityGates, Gates, dGates, wallAt>>
  /\ UNCHANGED <<sfVars, lineVars, roadVars, circVars, buildVars, distVars, towerVars, newVars, mapVars, genVars, repairVars, placeVars>>

\* addWalls: needed <= 0, nothing to add
WallsEnough ==
  /\ wallPc = "promote"
  /\ ~(needed > 0)
  /\ wallPc' = "gates"
  /\ UNCHANGED <<wallDists, MinFortifiedSites, curtainWall, insideDists,
                 outsideDists, needed, wasOutside>>
  /\ UNCHANGED <<MaxCityGates, Gates, dGates, wallAt>>
  /\ UNCHANGED <<sfVars, lineVars, roadVars, circVars, buildVars, distVars, towerVars, newVars, mapVars, genVars, repairVars, placeVars>>

\* addWalls: needed >= len(outsideDists), "kind of silly but .. eh."
WallsPromoteAll ==
  /\ wallPc = "promote"
  /\ needed > 0
  /\ needed >= Len(outsideDists)
  /\ insideDists' = insideDists \o outsideDists
  /\ wallPc' = "gates"
  /\ UNCHANGED <<wallDists, MinFortifiedSites, curtainWall, outsideDists, needed,
                 wasOutside>>
  /\ UNCHANGED <<MaxCityGates, Gates, dGates, wallAt>>
  /\ UNCHANGED <<sfVars, lineVars, roadVars, circVars, buildVars, distVars, towerVars, newVars, mapVars, genVars, repairVars, placeVars>>

\* sortDistrictsByDistance: the orders sort.Slice may leave s in
sortDistrictsByDistance(s) ==
  {q \in [1..Len(s) -> Range(s)] :
     /\ \A a, b \in 1..Len(s) : a # b => q[a] # q[b]
     /\ \A a, b \in 1..Len(s) : a < b => ~(wallDists[q[b]].far < wallDists[q[a]].far)}

\* addWalls: the `needed` outside districts nearest the centre are promoted
WallsPromoteNearest ==
  /\ wallPc = "promote"
  /\ needed > 0
  /\ ~(needed >= Len(outsideDists))
  /\ \E q \in sortDistrictsByDistance(outsideDists) :
       /\ insideDists' = insideDists \o SubSeq(q, 1, needed)
       /\ wallDists' = [n \in 1..Len(wallDists) |->
                          IF \E k \in 1..needed : q[k] = n
                            THEN [wallDists[n] EXCEPT !.HasFortifications = TRUE]
                            ELSE wallDists[n]]
       /\ outsideDists' = SubSeq(q, needed + 1, Len(q))
  /\ wallPc' = "gates"
  /\ UNCHANGED <<MinFortifiedSites, curtainWall, needed, wasOutside>>
  /\ UNCHANGED <<MaxCityGates, Gates, dGates, wallAt>>
  /\ UNCHANGED <<sfVars, lineVars, roadVars, circVars, buildVars, distVars, towerVars, newVars, mapVars, genVars, repairVars, placeVars>>

\* wallDistricts: the districts whose sites are handed to Circut as the
\* outside, for the `in` and `out` it is called with; around a single
\* district the outside is every other district of the city
wallDistrictsOut(in, out) ==
  IF Len(in) = 1
    THEN SelectAt([n \in 1..Len(wallDists) |-> n],
                  [n \in 1..Len(wallDists) |-> n # in[1]], Len(wallDists))
    ELSE out

\* wallDistricts: maxGates for the `in` it is called with
wallDistrictsMaxGates(in) == IF Len(in) = 1 THEN 1 ELSE MaxCityGates

\* a candidate gate location: the edge it lies on (the key toEdgeID makes)
\* and whether determinePlacements and fortificationsFit both pass
GateLocations ==
  SeqsUpTo([Edge : 1..WallMaxGateLocs, fits : BOOLEAN], WallMaxGateLocs)

\* wallDistricts: madeGates after the first n candidates of the loop over
\* `gates`; the loop breaks once len(madeGates) >= maxGates
RECURSIVE madeGates(_, _, _)
madeGates(gates, n, maxGates) ==
  IF n = 0 THEN {}
  ELSE LET made == madeGates(gates, n - 1, maxGates)
       IN IF Cardinality(made) >= maxGates THEN made
          ELSE IF ~gates[n].fits THEN made
          ELSE made \cup {gates[n].Edge}

\* addWalls: gatesIdeal[-1] holds edges of inside districts that have
\* HasFortifications to neighbours with neither fortification flag; there
\* are none without such a pair of districts
cityGateLocations ==
  IF \E d \in Range(insideDists), n \in 1..Len(wallDists) :
       /\ wallDists[d].HasFortifications
       /\ n # d
       /\ ~wallDists[n].HasCurtainFortifications /\ ~wallDists[n].HasFortifications
    THEN GateLocations ELSE {<<>>}

\* addWalls: the candidates of the curtain-walled district d are edges to
\* neighbours without a curtain wall, the ideal ones if there are any
curtainGateLocations(d) ==
  IF \E n \in 1..Len(wallDists) : n # d /\ ~wallDists[n].HasCurtainFortifications
    THEN GateLocations ELSE {<<>>}

\* addWalls: the city wall, `if len(insideDists) > 0 { ... }`
WallsCityWall ==
  /\ wallPc = "gates"
  /\ IF Len(insideDists) > 0
       THEN \E gates \in cityGateLocations :
              Gates' = Gates \cup madeGates(gates, Len(gates),
                                            wallDistrictsMaxGates(insideDists))
       ELSE Gates' = Gates
  /\ wallAt' = 1
  /\ wallPc' = "curtain"
  /\ UNCHANGED <<wallDists, MinFortifiedSites, curtainWall, insideDists,
                 outsideDists, needed, wasOutside, MaxCityGates, dGates>>
  /\ UNCHANGED <<sfVars, lineVars, roadVars, circVars, buildVars, distVars, towerVars, newVars, mapVars, genVars, repairVars, placeVars>>

\* addWalls: one turn of `for _, d := range curtainWall`
WallsCurtainWall ==
  /\ wallPc = "curtain"
  /\ wallAt <= Len(curtainWall)
  /\ LET d == curtainWall[wallAt]
     IN \E gates \in curtainGateLocations(d) :
          dGates' = [dGates EXCEPT ![d] =
                       @ \cup madeGates(gates, Len(gates), wallDistrictsMaxGates(<<d>>))]
  /\ wallAt' = wallAt + 1
  /\ UNCHANGED <<wallDists, MinFortifiedSites, curtainWall, insideDists,
                 outsideDists, needed, wasOutside, MaxCityGates, Gates, wallPc>>
  /\ UNCHANGED <<sfVars, lineVars, roadVars, circVars, buildVars, distVars, towerVars, newVars, mapVars, genVars, repairVars, placeVars>>

\* addWalls: past the last curtain-walled district, `return nil`
WallsReturn ==
  /\ wallPc = "curtain"
  /\ wallAt > Len(curtainWall)
  /\ wallPc' = "done"
  /\ UNCHANGED <<wallDists, MinFortifiedSites, curtainWall, insideDists,
                 outsideDists, needed, wasOutside, MaxCityGates, Gates, dGates, wallAt>>
  /\ UNCHANGED <<sfVars, lineVars, roadVars, circVars, buildVars, distVars, towerVars, newVars, mapVars, genVars, repairVars, placeVars>>

--------------------------------------------------------------------------
\* Citygraph.wallDistricts: the tower filler (tryPlaceTower, fillWithTowers)
\* over the wall runs of one walled group after the other.  A tower is the
\* rectangle towerFits returns.

\* the sizes c.cfg.Fortifications.TowerArea is drawn from
TowerAreas == {Rect(0, 0, 2, 2)}

\* the points where c.im holds the tower or the gatehouse bit while addWalls
\* runs: the bits are written by endDraw only, which build calls later
imTowerOrGate == {}

\* Citygraph.towerFits: the area of a tower centred at (px, py)
towerArea(px, py) ==
  LET tw == TowerArea.Max.X - TowerArea.Min.X
      th == TowerArea.Max.Y - TowerArea.Min.Y
  IN imageRect(px - tw \div 2, py - th \div 2, px + tw \div 2, py + th \div 2)

\* Citygraph.towerFits: does it fit
towerFits(px, py) ==
  \A x \in towerArea(px, py).Min.X..(towerArea(px, py).Max.X - 1),
     y \in towerArea(px, py).Min.Y..(towerArea(px, py).Max.Y - 1) :
       /\ Pt(x, y) \notin imTowerOrGate
       /\ Pt(x, y) \in towerLand

\* tryPlaceTower: the towers a new one is held away from
checkedTowersOwn(all, own) == own

checkedTowers(all, own) == all \o own

\* tryPlaceTower: is some tower nearer than mdbt
tooNear(ts, p, mdbt) ==
  \E n \in 1..Len(ts) :
    LET tx == (ts[n].Max.X + ts[n].Min.X) \div 2
        ty == (ts[n].Max.Y + ts[n].Min.Y) \div 2
    IN ISqrt(SqDist(tx, ty, p.X, p.Y)) < mdbt

\* tryPlaceTower(p, mdbt) on st = [towers, log]; atEnd says the call is one
\* of the two at the ends of the run.  st and the towers to keep away from
\* are bound once, as values.
tryPlaceTower(st, p, mdbt, atEnd) ==
  LET place(s, ts) ==
        IF ~towerFits(p.X, p.Y) THEN s
        ELSE IF mdbt > 0 /\ tooNear(ts, p, mdbt) THEN s
        ELSE [towers |-> Append(s.towers, towerArea(p.X, p.Y)),
              log |-> Append(s.log, [at |-> p, atEnd |-> atEnd])]
  IN CHOOSE r \in {place(s, ts) : s \in {st},
                                  ts \in {checkedTowers(allTowers, st.towers)}} : TRUE

\* fillWithTowers: `for i := mdbt; i < len(pnts); i += mdbt`
RECURSIVE towerLoop(_, _, _)
towerLoop(st, pnts, n) ==
  IF ~(n < Len(pnts)) THEN st
  ELSE towerLoop(tryPlaceTower(st, pnts[n + 1], MinDistBetweenTowers, FALSE),
                 pnts, n + MinDistBetweenTowers)

\* fillWithTowers: the towers at both ends
towerEnds(st, a, b) ==
  tryPlaceTower(tryPlaceTower(st, a, MinDistBetweenTowers \div 2, TRUE),
                b, MinDistBetweenTowers \div 2, TRUE)

\* the cells a walled group covers; its wall runs are the Edges of its cell
TowerCells ==
  {c \in {Rect(x0, 0, x1, 1) : x0 \in 0..TowerMaxCoord, x1 \in 0..TowerMaxCoord} :
     c.Min.X < c.Max.X}

IdleTowers ==
  /\ MinDistBetweenTowers = 0 /\ TowerArea = Rect(0, 0, 0, 0) /\ towerLand = {}
  /\ allTowers = <<>> /\ towers = <<>> /\ towerLog = <<>> /\ towerGroups = <<>>
  /\ towerPaths = <<>> /\ towerPc = "idle"

\* addWalls before the first call of wallDistricts: the fortified group, then
\* one curtain-walled district
InitTowers ==
  /\ MinDistBetweenTowers \in 0..TowerMaxDist
  /\ TowerArea \in TowerAreas
  /\ towerLand \in {{Pt(x, y) : x \in (0 - 1)..(TowerMaxCoord + 1), y \in (0 - 1)..2} \ hole :
                      hole \in {{}, {Pt(2, 1)}}}
  /\ allTowers = <<>>
  /\ towers = <<>>
  /\ towerLog = <<>>
  /\ towerGroups \in {<<Edges(c), Edges(d)>> : c \in TowerCells, d \in TowerCells}
  /\ towerPaths = <<>>
  /\ towerPc = "walls"

\* addWalls calls wallDistricts for the next group; wallDistricts: the towers
\* of a gate location are drawn and appended to towers with no test of their
\* spacing
GateTowers ==
  /\ towerPc = "walls"
  /\ towerGroups # <<>>
  /\ towers' \in {<<>>} \cup {<<towerArea(p.X, p.Y)>> : p \in Range(Head(towerGroups)[1])}
  /\ towerPaths' = Head(towerGroups)
  /\ towerGroups' = Tail(towerGroups)
  /\ towerPc' = "fill"
  /\ UNCHANGED <<MinDistBetweenTowers, TowerArea, towerLand, allTowers, towerLog>>
  /\ UNCHANGED <<sfVars, lineVars, roadVars, circVars, buildVars, distVars, wallVars, newVars, mapVars, genVars, repairVars, placeVars>>

\* wallDistricts: fillWithTowers(path[0], path[1]) for the next wall run
FillWithTowers ==
  /\ towerPc = "fill"
  /\ towerPaths # <<>>
  /\ MinDistBetweenTowers > 0
  /\ LET a == Head(towerPaths)[1]
         b == Head(towerPaths)[2]
         st == towerLoop(towerEnds([towers |-> towers, log |-> towerLog], a, b),
                         PointsBetween(a, b), MinDistBetweenTowers)
     IN /\ towers' = st.towers
        /\ towerLog' = st.log
  /\ towerPaths' = Tail(towerPaths)
  /\ UNCHANGED <<MinDistBetweenTowers, TowerArea, towerLand, allTowers, towerGroups,
                 towerPc>>
  /\ UNCHANGED <<sfVars, lineVars, roadVars, circVars, buildVars, distVars, wallVars, newVars, mapVars, genVars, repairVars, placeVars>>

\* wallDistricts: fillWithTowers when MinDistBetweenTowers is 0: after the
\* two ends the loop never leaves i = 0
FillWithTowersSpin ==
  /\ towerPc = "fill"
  /\ towerPaths # <<>>
  /\ MinDistBetweenTowers = 0
  /\ LET a == Head(towerPaths)[1]
         b == Head(towerPaths)[2]
         st == towerEnds([towers |-> towers, log |-> towerLog], a, b)
     IN /\ towers' = st.towers
        /\ towerLog' = st.log
  /\ towerPc' = "spin"
  /\ UNCHANGED <<MinDistBetweenTowers, TowerArea, towerLand, allTowers, towerGroups,
                 towerPaths>>
  /\ UNCHANGED <<sfVars, lineVars, roadVars, circVars, buildVars, distVars, wallVars, newVars, mapVars, genVars, repairVars, placeVars>>

\* wallDistricts returns; addWalls: allTowers = append(allTowers, ts...)
WallDistrictsReturn ==
  /\ towerPc = "fill"
  /\ towerPaths = <<>>
  /\ allTowers' = allTowers \o towers
  /\ towers' = <<>>
  /\ towerPc' = "walls"
  /\ UNCHANGED <<MinDistBetweenTowers, TowerArea, towerLand, towerLog, towerGroups,
                 towerPaths>>
  /\ UNCHANGED <<sfVars, lineVars, roadVars, circVars, buildVars, distVars, wallVars, newVars, mapVars, genVars, repairVars, placeVars>>

--------------------------------------------------------------------------
\* imageMap: the scratch image the roads and fortifications are drawn on
\* (ctx), the map proper (im), endDraw and the reads of CityMap.  A draw
\* paints one pixel.

\* the pixels of an image with bounds b
Pix(b) == {Pt(x, y) : x \in b.Min.X..(b.Max.X - 1), y \in b.Min.Y..(b.Max.Y - 1)}

Colour(r, g, b) == [r |-> r, g |-> g, b |-> b]

\* one pixel of im: R the district id, G and B the building id, A the district
\* type id and the bitmap
RGBA64(r, gb, typeid, bits) == [R |-> r, GB |-> gb, typeid |-> typeid, bits |-> bits]

\* ctx.Image().At(p): the zero colour outside the image
At(p) == IF p \in Pix(imBounds) THEN scratch[p] ELSE Colour(0, 0, 0)

\* c.im.RGBA64At(p): the zero colour outside the image
RGBA64At(p) == IF p \in Pix(imBounds) THEN im[p] ELSE RGBA64(0, 0, 0, {})

\* imageMap.getBM
getBM(p) == RGBA64At(p).bits

\* imageMap.isOutOfBounds
isOutOfBounds(x, y) ==
  x < imBounds.Min.X \/ x > imBounds.Max.X \/ y < imBounds.Min.Y \/ y > imBounds.Max.Y

\* districtForID
districtForID(n) == IF n = 2 THEN "civic" ELSE IF n = 13 THEN Docks ELSE Empty

\* imageMap.IsRoad, IsBridge, IsWall, IsTower, IsGatehouse for their bit
IsBit(bit, x, y) == IF isOutOfBounds(x, y) THEN FALSE ELSE bit \in getBM(Pt(x, y))

\* imageMap.BuildingID: <<id, an error is returned>>
mapBuildingID(x, y) ==
  IF isOutOfBounds(x, y) THEN <<-1, TRUE>> ELSE <<RGBA64At(Pt(x, y)).GB, FALSE>>

\* imageMap.District: <<type, id, an error is returned>>
mapDistrict(x, y) ==
  IF isOutOfBounds(x, y) THEN <<Empty, -1, TRUE>>
  ELSE <<districtForID(RGBA64At(Pt(x, y)).typeid), RGBA64At(Pt(x, y)).R, FALSE>>

\* all the reads of CityMap at (x, y)
readAll(x, y) ==
  [IsRoad |-> IsBit("road", x, y), IsBridge |-> IsBit("bridge", x, y),
   IsWall |-> IsBit("wall", x, y), IsTower |-> IsBit("tower", x, y),
   IsGatehouse |-> IsBit("gate", x, y),
   BuildingID |-> mapBuildingID(x, y), District |-> mapDistrict(x, y)]

\* nearbyFortifications; RGBA() hands out 16-bit channels
nearbyFortifications(x, y, radius) ==
  \E dy \in (y - radius)..(y + radius - 1), dx \in (x - radius)..(x + radius - 1) :
    At(Pt(dx, dy)).b * 257 >= 50

\* endDraw: the bitmap of a pixel on which something was drawn
drawnBits(c) ==
  (IF c.g > 0 THEN {"bridge"} ELSE {})
    \cup (IF c.b >= 150 THEN {"gate"}
          ELSE IF c.b >= 100 THEN {"tower"}
          ELSE IF c.b >= 50 THEN {"wall"} ELSE {})
    \cup (IF c.r > 0 THEN {"road"} ELSE {})

\* endDraw: the pixel of im at p after the sweep
endDrawAt(p) ==
  LET c == At(p)
      road == p \in outlineBuild
      water == p \in outlineBridge
  IN IF c.r = 0 /\ c.g = 0 /\ c.b = 0
       THEN IF (road \/ water) /\ nearbyFortifications(p.X, p.Y, wallBorderRoadWidth)
              THEN [im[p] EXCEPT !.bits = {IF water THEN "bridge" ELSE "road"}]
              ELSE im[p]
       ELSE [im[p] EXCEPT !.bits = drawnBits(c)]

IdleMap ==
  /\ imBounds = Rect(0, 0, 0, 0) /\ scratch = <<>> /\ masked = {}
  /\ outlineBuild = {} /\ outlineBridge = {} /\ im = <<>>
  /\ wallBorderRoadWidth = 0 /\ mapDraws = 0
  /\ mapQuery = Pt(0, 0) /\ mapRead = <<>> /\ mapPc = "idle"

\* newMap, and the districts set on the map
InitMap ==
  /\ \E w \in 1..MapMaxSide, h \in 1..MapMaxSide : imBounds = Rect(0, 0, w, h)
  /\ scratch = [p \in Pix(imBounds) |-> Colour(0, 0, 0)]
  /\ masked = {}
  /\ \/ outlineBuild = Pix(imBounds) /\ outlineBridge = {}
     \/ outlineBuild = {} /\ outlineBridge = Pix(imBounds)
     \/ outlineBuild = {} /\ outlineBridge = {}
  /\ \E t \in {0, 2} : im = [p \in Pix(imBounds) |-> RGBA64(IF t = 0 THEN 0 ELSE 1, 0, t, {})]
  /\ wallBorderRoadWidth \in 0..MapMaxRadius
  /\ mapDraws = 0
  /\ mapQuery = Pt(0, 0)
  /\ mapRead = <<>>
  /\ mapPc = "draw"

\* ctx.Fill / ctx.Stroke of colour c at p: the mask keeps towers and
\* gatehouses from being painted over
paint(p, c) ==
  /\ mapPc = "draw"
  /\ mapDraws < MapMaxDraws
  /\ mapDraws' = mapDraws + 1
  /\ scratch' = IF p \in masked THEN scratch ELSE [scratch EXCEPT ![p] = c]
  /\ UNCHANGED <<imBounds, outlineBuild, outlineBridge, im, wallBorderRoadWidth,
                 mapQuery, mapRead, mapPc>>
  /\ UNCHANGED <<sfVars, lineVars, roadVars, circVars, buildVars, distVars, wallVars,
                 towerVars, newVars, genVars, repairVars, placeVars>>

drawGatehouse ==
  \E p \in Pix(imBounds) : paint(p, Colour(0, 0, 150)) /\ masked' = masked \cup {p}

drawTower ==
  \E p \in Pix(imBounds) : paint(p, Colour(0, 0, 100)) /\ masked' = masked \cup {p}

drawWall ==
  \E p \in Pix(imBounds) : paint(p, Colour(0, 0, 50)) /\ UNCHANGED masked

drawBridge ==
  \E p \in Pix(imBounds) : paint(p, Colour(0, 255, 0)) /\ UNCHANGED masked

drawRoad ==
  \E p \in Pix(imBounds) : paint(p, Colour(255, 0, 0)) /\ UNCHANGED masked

\* imageMap.endDraw
endDraw ==
  /\ mapPc = "draw"
  /\ im' = [p \in Pix(imBounds) |-> endDrawAt(p)]
  /\ mapPc' = "drawn"
  /\ UNCHANGED <<imBounds, scratch, masked, outlineBuild, outlineBridge,
                 wallBorderRoadWidth, mapDraws, mapQuery, mapRead>>
  /\ UNCHANGED <<sfVars, lineVars, roadVars, circVars, buildVars, distVars, wallVars,
                 towerVars, newVars, genVars, repairVars, placeVars>>

\* a caller reads the finished map at a coordinate in or around it
ReadMap ==
  /\ mapPc = "drawn"
  /\ \E x \in (imBounds.Min.X - 1)..(imBounds.Max.X + 1),
        y \in (imBounds.Min.Y - 1)..(imBounds.Max.Y + 1) :
       /\ mapQuery' = Pt(x, y)
       /\ mapRead' = readAll(x, y)
  /\ mapPc' = "read"
  /\ UNCHANGED <<imBounds, scratch, masked, outlineBuild, outlineBridge, im,
                 wallBorderRoadWidth, mapDraws>>
  /\ UNCHANGED <<sfVars, lineVars, roadVars, circVars, buildVars, distVars, wallVars,
                 towerVars, newVars, genVars, repairVars, placeVars>>

--------------------------------------------------------------------------
\* vSite.AllContains and vPGen.Next: the generator of the points of a site.
\* The site is a rectangular cell; its polygon is the polygon of the cell
\* and its bounds are the bounds of that polygon.

\* what Next returns: nil or a point
nilPoint == [isNil |-> TRUE, X |-> 0, Y |-> 0]

somePoint(x, y) == [isNil |-> FALSE, X |-> x, Y |-> y]

GenBounds ==
  {Rect(x0, y0, x1, y1) :
     x0 \in (0 - GenMaxCoord)..GenMaxCoord, x1 \in (0 - GenMaxCoord)..GenMaxCoord,
     y0 \in (0 - GenMaxCoord)..GenMaxCoord, y1 \in (0 - GenMaxCoord)..GenMaxCoord}

IdleGen ==
  genBounds = Rect(0, 0, 0, 0) /\ genX = -1 /\ genY = -1 /\ genReturned = <<>>

\* AllContains: a fresh generator
InitGen ==
  /\ genBounds \in {r \in GenBounds : r.Min.X < r.Max.X /\ r.Min.Y < r.Max.Y}
  /\ genX = -1
  /\ genY = -1
  /\ genReturned = <<>>

\* Next: the two loops, from the local x in the row v.y with v.x as it is;
\* the result is what is returned and what v.x and v.y are left as
RECURSIVE genLoops(_, _, _, _)
genLoops(b, vx, x, vy) ==
  IF ~(vy < b.Max.Y) THEN [ret |-> nilPoint, x |-> vx, y |-> vy]
  ELSE IF x < b.Max.X
    THEN IF Contains(b, Pt(x, vy))
           THEN [ret |-> somePoint(x, vy), x |-> x + 1, y |-> vy]
           ELSE genLoops(b, vx, x + 1, vy)
    ELSE genLoops(b, b.Min.X, b.Min.X, vy + 1)

\* Next
vPGenNext(b, vx, vy) ==
  IF vx = -1 /\ vy = -1
    THEN genLoops(b, b.Min.X, b.Min.X, b.Min.Y)
    ELSE genLoops(b, vx, vx, vy)

\* one call of Next
GenNext ==
  /\ Len(genReturned) < GenMaxCalls
  /\ LET r == vPGenNext(genBounds, genX, genY)
     IN /\ genReturned' = Append(genReturned, r.ret)
        /\ genX' = r.x
        /\ genY' = r.y
  /\ UNCHANGED genBounds
  /\ UNCHANGED <<sfVars, lineVars, roadVars, circVars, buildVars, distVars, wallVars, towerVars, newVars, mapVars, repairVars, placeVars>>

--------------------------------------------------------------------------
\* VoronoiDiagram.Repair on a diagram of one cell.  The cell is a strictly
\* convex polygon with its segments in the order of the walk round it;
\* coordinates lie on a grid and two of them are within epsilon when their
\* distance is at most epsilon.

RepairGrid == {Pt(x, y) : x \in 0..RepairMaxCoord, y \in 0..RepairMaxCoord}

\* a *model2d.Segment that is nil
nilSegment == <<>>

\* the walks round the strictly convex polygons on the grid
RepairWalks ==
  {w \in SeqsUpTo(RepairGrid, RepairMaxEdges) :
     /\ Len(w) >= 3
     /\ \A n \in 1..Len(w) :
          LET a == w[n]
              b == w[(n % Len(w)) + 1]
              c == w[((n + 1) % Len(w)) + 1]
          IN (b.X - a.X) * (c.Y - b.Y) - (b.Y - a.Y) * (c.X - b.X) > 0
     /\ \A m, n \in 1..Len(w) : m # n => w[m] # w[n]}

\* the segments of a walk: from each corner to the next, the last to the first
segmentsOf(w) == [n \in 1..Len(w) |-> <<w[n], w[(n % Len(w)) + 1]>>]

IdleRepair ==
  /\ cellEdges = <<>> /\ epsilon = 0 /\ mapping = <<>> /\ starts = <<>>
  /\ repairI = 0 /\ repairPc = "idle"

\* VoronoiCells has returned the cell
InitRepair ==
  /\ cellEdges \in {segmentsOf(w) : w \in RepairWalks}
  /\ epsilon \in 0..RepairMaxEpsilon
  /\ mapping = <<>>
  /\ starts = <<>>
  /\ repairI = 0
  /\ repairPc = "merge"

\* Repair: coordSlice, the end points of the first n segments in the order
\* they are first met
RECURSIVE coordSlice(_, _)
coordSlice(edges, n) ==
  IF n = 0 THEN <<>>
  ELSE LET sofar == coordSlice(edges, n - 1)
           one == IF edges[n][1] \in Range(sofar) THEN sofar
                  ELSE Append(sofar, edges[n][1])
       IN IF edges[n][2] \in Range(one) THEN one ELSE Append(one, edges[n][2])

\* neighborsInDistance: the coordinates within epsilon of c
neighborsInDistance(cs, c, eps) ==
  {n \in Range(cs) : SqDist(n.X, n.Y, c.X, c.Y) <= eps * eps}

\* Repair: the loop that makes mapping, after the first n of coordSlice;
\* a coordinate is mapped to the first unmerged coordinate it is within
\* epsilon of
RECURSIVE mappingAfter(_, _, _)
mappingAfter(cs, n, eps) ==
  IF n = 0 THEN [q \in {} |-> q]
  ELSE LET m == mappingAfter(cs, n - 1, eps)
           c == cs[n]
       IN IF c \in DOMAIN m THEN m
          ELSE [q \in DOMAIN m \cup neighborsInDistance(cs, c, eps) |->
                  IF q \in DOMAIN m THEN m[q] ELSE c]

\* Repair: coordSet, coordSlice, tree and mapping
RepairMerge ==
  /\ repairPc = "merge"
  /\ mapping' = mappingAfter(coordSlice(cellEdges, Len(cellEdges)),
                             Len(coordSlice(cellEdges, Len(cellEdges))), epsilon)
  /\ repairI' = 1
  /\ repairPc' = "edges"
  /\ UNCHANGED <<cellEdges, epsilon, starts>>
  /\ UNCHANGED <<sfVars, lineVars, roadVars, circVars, buildVars, distVars, wallVars, towerVars, newVars, mapVars, genVars, placeVars>>

\* essentials.UnorderedDelete: the last element takes the place of the
\* i-th and the slice is cut by one
UnorderedDelete(edges, n) ==
  IF n = Len(edges) THEN Front(edges)
  ELSE Front([edges EXCEPT ![n] = edges[Len(edges)]])

\* Repair: one turn of `for i := 0; i < len(cell.Edges); i++`
RepairEdge ==
  /\ repairPc = "edges"
  /\ repairI <= Len(cellEdges)
  /\ LET edge == <<mapping[cellEdges[repairI][1]], mapping[cellEdges[repairI][2]]>>
     IN IF edge[1] = edge[2]
          THEN /\ cellEdges' = UnorderedDelete(cellEdges, repairI)
               /\ UNCHANGED starts
          ELSE /\ cellEdges' = [cellEdges EXCEPT ![repairI] = edge]
               /\ starts' = [q \in DOMAIN starts \cup {edge[1]} |->
                               IF q = edge[1] THEN edge ELSE starts[q]]
  /\ repairI' = repairI + 1
  /\ UNCHANGED <<epsilon, mapping, repairPc>>
  /\ UNCHANGED <<sfVars, lineVars, roadVars, circVars, buildVars, distVars, wallVars, towerVars, newVars, mapVars, genVars, placeVars>>

\* Repair: newOrder after its first n places are filled; "panic" where
\* prev[1] is read of a nil prev
RECURSIVE newOrder(_, _, _)
newOrder(edges, st, n) ==
  IF n = 1 THEN <<edges[1]>>
  ELSE LET sofar == newOrder(edges, st, n - 1)
       IN IF sofar = "panic" THEN "panic"
          ELSE IF sofar[n - 1] = nilSegment THEN "panic"
          ELSE IF sofar[n - 1][2] \in DOMAIN st
            THEN Append(sofar, st[sofar[n - 1][2]])
            ELSE Append(sofar, nilSegment)

\* Repair: "now to sort the edges"
RepairSort ==
  /\ repairPc = "edges"
  /\ ~(repairI <= Len(cellEdges))
  /\ IF cellEdges = <<>> \/ newOrder(cellEdges, starts, Len(cellEdges)) = "panic"
       THEN repairPc' = "panic" /\ UNCHANGED cellEdges
       ELSE /\ cellEdges' = newOrder(cellEdges, starts, Len(cellEdges))
            /\ repairPc' = "done"
  /\ UNCHANGED <<epsilon, mapping, starts, repairI>>
  /\ UNCHANGED <<sfVars, lineVars, roadVars, circVars, buildVars, distVars, wallVars, towerVars, newVars, mapVars, genVars, placeVars>>

--------------------------------------------------------------------------
\* Citygraph.randomDistricts and verifyDistrictLocations: where the random
\* sites are put and how much buildable land their districts have.  The
\* Area is two rows high and there are no DistrictSites; the sites drawn
\* share a row, so that the cells of the diagram are rectangles.

PlaceArea == Rect(0, 0, PlaceMaxSide, 2)

PlaceGrid == {Pt(x, y) : x \in 0..(PlaceMaxSide - 1), y \in 0..1}

IdlePlace ==
  /\ MinDistrictSize = 0 /\ outlineCanBuildOn = {} /\ gbSites = <<>>
  /\ addedTypes = <<>> /\ Buildable = <<>> /\ placePc = "idle"

\* build before randomDistricts, with no user defined district
InitPlace ==
  /\ MinDistrictSize \in 0..PlaceMaxSize
  /\ outlineCanBuildOn \in SUBSET PlaceGrid
  /\ gbSites = <<>>
  /\ addedTypes = <<>>
  /\ Buildable = <<>>
  /\ placePc = "sites"

\* randomDistricts: the candidate filter, "area around district centre has
\* enough usable land"
candidateFilter(x, y) ==
  Cardinality({q \in outlineCanBuildOn :
     /\ q.X >= x - MinDistrictSize \div 2 /\ q.X < x + MinDistrictSize \div 2
     /\ q.Y >= y - MinDistrictSize \div 2 /\ q.Y < y + MinDistrictSize \div 2})
    >= MinDistrictSize

\* Builder.MinDistance(float64(c.cfg.MinDistrictSize / 2))
MinDistance(ax, ay, sx, sy) ==
  SqDist(sx, sy, ax, ay) >= (MinDistrictSize \div 2) * (MinDistrictSize \div 2)

\* Builder.accepted
accepted(x, y) ==
  /\ candidateFilter(x, y)
  /\ \A n \in 1..Len(gbSites) : MinDistance(x, y, gbSites[n].X, gbSites[n].Y)

\* randomDistricts: AddRandomSite accepts its candidate, and the type the
\* new district gets when the types are dealt out
AddRandomSite ==
  /\ placePc = "sites"
  /\ Len(gbSites) < PlaceMaxSites
  /\ \E q \in PlaceGrid, t \in Range(allDistricts) :
       /\ accepted(q.X, q.Y)
       /\ \A n \in 1..Len(gbSites) : gbSites[n].Y = q.Y
       /\ gbSites' = Append(gbSites, q)
       /\ addedTypes' = Append(addedTypes, t)
  /\ UNCHANGED <<MinDistrictSize, outlineCanBuildOn, Buildable, placePc>>
  /\ UNCHANGED <<sfVars, lineVars, roadVars, circVars, buildVars, distVars, wallVars, towerVars, newVars, mapVars, genVars, repairVars>>

\* math.Round of the middle of a and b, both >= 0
roundMid(a, b) == (a + b + 1) \div 2

\* Builder.Voronoi, vSite.buildPolygon: the cell of the site k among sites
\* of one row
placeCell(k) ==
  LET lefts == {roundMid(gbSites[n].X, gbSites[k].X) :
                  n \in {m \in 1..Len(gbSites) : gbSites[m].X < gbSites[k].X}}
      rights == {roundMid(gbSites[n].X, gbSites[k].X) :
                   n \in {m \in 1..Len(gbSites) : gbSites[m].X > gbSites[k].X}}
      x0 == IF lefts = {} THEN PlaceArea.Min.X
            ELSE CHOOSE v \in lefts : \A u \in lefts : u <= v
      x1 == IF rights = {} THEN PlaceArea.Max.X
            ELSE CHOOSE v \in rights : \A u \in rights : v <= u
  IN Rect(x0, PlaceArea.Min.Y, x1, PlaceArea.Max.Y)

\* verifyDistrictLocations: Stats.Buildable as the loop over gen.Next()
\* counts it, from the generator position (vx, vy) on
RECURSIVE countBuildable(_, _, _)
countBuildable(b, vx, vy) ==
  LET r == vPGenNext(b, vx, vy)
  IN IF r.ret.isNil THEN 0
     ELSE (IF Pt(r.ret.X, r.ret.Y) \in outlineCanBuildOn THEN 1 ELSE 0)
          + countBuildable(b, r.x, r.y)

\* build: c.gb.Voronoi() and verifyDistrictLocations(added), step 0; no
\* district is a dock here, so it returns nil after the count
verifyDistrictLocations ==
  /\ placePc = "sites"
  /\ Len(gbSites) > 0
  /\ \A n \in 1..Len(addedTypes) : addedTypes[n] # Docks
  /\ Buildable' = [k \in 1..Len(gbSites) |-> countBuildable(placeCell(k), -1, -1)]
  /\ placePc' = "done"
  /\ UNCHANGED <<MinDistrictSize, outlineCanBuildOn, gbSites, addedTypes>>
  /\ UNCHANGED <<sfVars, lineVars, roadVars, circVars, buildVars, distVars, wallVars, towerVars, newVars, mapVars, genVars, repairVars>>

--------------------------------------------------------------------------
\* Specifications

NextSiteFor == SiteForReturnZero \/ SiteForScan \/ SiteForReturnPick

StartSiteFor == InitSiteFor /\ IdleLine /\ IdleRoads /\ IdleCircut /\ IdleBuild /\ IdleDistricts /\ IdleWalls /\ IdleTowers /\ IdleNew /\ IdleMap /\ IdleGen /\ IdleRepair /\ IdlePlace

SpecSiteFor == StartSiteFor /\ [][NextSiteFor]_vars

NextLine == LineStep \/ LineFinish

StartLine == InitLine /\ IdleSiteFor /\ IdleRoads /\ IdleCircut /\ IdleBuild /\ IdleDistricts /\ IdleWalls /\ IdleTowers /\ IdleNew /\ IdleMap /\ IdleGen /\ IdleRepair /\ IdlePlace

SpecLine == StartLine /\ [][NextLine]_vars

NextRoads == LineStep \/ LineFinish \/ SkipEdge \/ RecordMainEdge \/ RecordMinorEdge

StartRoads == InitRoads /\ IdleSiteFor /\ IdleCircut /\ IdleBuild /\ IdleDistricts /\ IdleWalls /\ IdleTowers /\ IdleNew /\ IdleMap /\ IdleGen /\ IdleRepair /\ IdlePlace

SpecRoads == StartRoads /\ [][NextRoads]_vars

NextCircut == CircutCollect \/ CircutDelete \/ CircutReturn

StartCircut == InitCircut /\ IdleSiteFor /\ IdleLine /\ IdleRoads /\ IdleBuild /\ IdleDistricts /\ IdleWalls /\ IdleTowers /\ IdleNew /\ IdleMap /\ IdleGen /\ IdleRepair /\ IdlePlace

SpecCircut == StartCircut /\ [][NextCircut]_vars

NextBuild == PlaceCentral \/ PlaceTop \/ PlaceBottom \/ PlaceLeft \/ PlaceRight

StartBuild == InitBuild /\ IdleSiteFor /\ IdleLine /\ IdleRoads /\ IdleCircut /\ IdleDistricts /\ IdleWalls /\ IdleTowers /\ IdleNew /\ IdleMap /\ IdleGen /\ IdleRepair /\ IdlePlace

SpecBuild == StartBuild /\ [][NextBuild]_vars

NextDistricts ==
  \/ AddDistrictSites \/ RandomDistrictsEnough \/ RandomDistrictsSites
  \/ RandomDistrictsFill \/ RandomDistrictsSpin \/ RandomDistrictsZip
  \/ VerifyCollect \/ DockSwap \/ DockReassign \/ DockSpin \/ DockFail
  \/ NewReturns

StartDistricts ==
  InitDistricts /\ IdleSiteFor /\ IdleLine /\ IdleRoads /\ IdleCircut /\ IdleBuild
  /\ IdleWalls /\ IdleTowers /\ IdleNew /\ IdleMap /\ IdleGen /\ IdleRepair /\ IdlePlace

SpecDistricts == StartDistricts /\ [][NextDistricts]_vars

NextWalls ==
  \/ WallsClassify \/ WallsEnough \/ WallsPromoteAll \/ WallsPromoteNearest
  \/ WallsCityWall \/ WallsCurtainWall \/ WallsReturn

StartWalls ==
  InitWalls /\ IdleSiteFor /\ IdleLine /\ IdleRoads /\ IdleCircut /\ IdleBuild
  /\ IdleDistricts /\ IdleTowers /\ IdleNew /\ IdleMap /\ IdleGen /\ IdleRepair /\ IdlePlace

SpecWalls == StartWalls /\ [][NextWalls]_vars

NextTowers == GateTowers \/ FillWithTowers \/ FillWithTowersSpin \/ WallDistrictsReturn

StartTowers ==
  InitTowers /\ IdleSiteFor /\ IdleLine /\ IdleRoads /\ IdleCircut /\ IdleBuild
  /\ IdleDistricts /\ IdleWalls /\ IdleNew /\ IdleMap /\ IdleGen /\ IdleRepair /\ IdlePlace

SpecTowers == StartTowers /\ [][NextTowers]_vars

\* build runs on one goroutine that nothing preempts for good: a step of
\* addWalls that can be taken is taken
FairSpecTowers == StartTowers /\ [][NextTowers]_vars /\ WF_vars(NextTowers)

NextMap ==
  drawGatehouse \/ drawTower \/ drawWall \/ drawBridge \/ drawRoad \/ endDraw \/ ReadMap

StartMap ==
  InitMap /\ IdleSiteFor /\ IdleLine /\ IdleRoads /\ IdleCircut /\ IdleBuild
  /\ IdleDistricts /\ IdleWalls /\ IdleTowers /\ IdleNew /\ IdleGen /\ IdleRepair /\ IdlePlace

SpecMap == StartMap /\ [][NextMap]_vars

NextGen == GenNext

StartGen ==
  InitGen /\ IdleSiteFor /\ IdleLine /\ IdleRoads /\ IdleCircut /\ IdleBuild
  /\ IdleDistricts /\ IdleWalls /\ IdleTowers /\ IdleNew /\ IdleMap /\ IdleRepair /\ IdlePlace

SpecGen == StartGen /\ [][NextGen]_vars

NextRepair == RepairMerge \/ RepairEdge \/ RepairSort

StartRepair ==
  InitRepair /\ IdleSiteFor /\ IdleLine /\ IdleRoads /\ IdleCircut /\ IdleBuild
  /\ IdleDistricts /\ IdleWalls /\ IdleTowers /\ IdleNew /\ IdleMap /\ IdleGen /\ IdlePlace

SpecRepair == StartRepair /\ [][NextRepair]_vars

NextPlace == AddRandomSite \/ verifyDistrictLocations

StartPlace ==
  InitPlace /\ IdleSiteFor /\ IdleLine /\ IdleRoads /\ IdleCircut /\ IdleBuild
  /\ IdleDistricts /\ IdleWalls /\ IdleTowers /\ IdleNew /\ IdleMap /\ IdleGen
  /\ IdleRepair

SpecPlace == StartPlace /\ [][NextPlace]_vars

--------------------------------------------------------------------------
\* Properties of Voronoi.SiteFor

\* C1: SiteFor returns a site at minimal Euclidean distance from the query
\* point; in particular the coordinates of site k give site k or a site
\* equally distant.
SiteForIsNearest ==
  sfPc = "done" =>
    /\ sfRet \in 1..Len(sites)
    /\ \A k \in 1..Len(sites) :
         SqDist(sites[sfRet].X, sites[sfRet].Y, query.X, query.Y)
           <= SqDist(sites[k].X, sites[k].Y, query.X, query.Y)

--------------------------------------------------------------------------
\* Properties of lineSegments

IndexOf(p) == CHOOSE j \in 1..Len(path) : path[j] = p

\* the returned sub-segments, tagged by the list they are in
SegIds ==
  ({enumRoad} \X (1..Len(roads))) \cup ({enumBridge} \X (1..Len(bridges)))
    \cup ({enumWall} \X (1..Len(walls)))

SegOf(id) ==
  IF id[1] = enumRoad THEN roads[id[2]]
  ELSE IF id[1] = enumBridge THEN bridges[id[2]]
  ELSE walls[id[2]]

Lo(id) == IndexOf(SegOf(id)[1])
Hi(id) == IndexOf(SegOf(id)[2])

Covered(j) == \E id \in SegIds : Lo(id) <= j /\ j <= Hi(id)

\* C2: the returned sub-segments are pairwise disjoint index intervals of the
\* rasterized path and every path point in none of them is classified
\* "nothing", so sub-segments and gaps rebuild the path.
SegmentsRebuildPath ==
  linePc = "done" =>
    /\ \A a, b \in SegIds : a # b => (Hi(a) < Lo(b) \/ Hi(b) < Lo(a))
    /\ \A j \in 1..Len(path) : ~Covered(j) => mes[j] = enumNothing

\* C3: every returned sub-segment is a maximal run of its classification.
RunsAreMaximal ==
  linePc = "done" =>
    \A id \in SegIds :
      /\ Lo(id) <= Hi(id)
      /\ \A j \in Lo(id)..Hi(id) : mes[j] = id[1]
      /\ Lo(id) > 1 => mes[Lo(id) - 1] # id[1]
      /\ Hi(id) < Len(path) => mes[Hi(id) + 1] # id[1]

\* a call that returned a road run and a bridge run on a three point path
RunsAreMaximalWitness ==
  /\ linePc = "done" /\ Len(path) = 3
  /\ Len(roads) > 0 /\ Len(bridges) > 0
  /\ \E id \in SegIds : Lo(id) < Hi(id)

\* C4: no bridge sub-segment is returned unless a road sub-segment was
\* emitted before it in the same call.
BridgeNeedsRoad == Len(bridges) > 0 => Len(roads) > 0

\* C5: each path point is classified by the first rule that applies:
\* outside the cell, building, fortification, buildable, bridgeable.
ClassifiedByPriority ==
  \A j \in 1..Len(mes) :
    LET k == terrain[j]
        out == hasSite /\ ~k.inside
    IN /\ out => mes[j] = enumNothing
       /\ (~out /\ k.building) => mes[j] = enumNothing
       /\ (~out /\ ~k.building /\ k.fort) => mes[j] = enumWall
       /\ (~out /\ ~k.building /\ ~k.fort /\ k.build) => mes[j] = enumRoad
       /\ (~out /\ ~k.building /\ ~k.fort /\ ~k.build /\ k.bridge)
            => mes[j] = enumBridge
       /\ (~out /\ ~k.building /\ ~k.fort /\ ~k.build /\ ~k.bridge)
            => mes[j] = enumNothing

\* a path with a fortified buildable point (wall) and a point that is both
\* buildable and bridgeable (road)
ClassifiedByPriorityWitness ==
  /\ linePc = "done"
  /\ \E j \in 1..Len(mes) :
       terrain[j].fort /\ terrain[j].build /\ ~terrain[j].building
         /\ mes[j] = enumWall
  /\ \E j \in 1..Len(mes) :
       terrain[j].build /\ terrain[j].bridge /\ mes[j] = enumRoad

--------------------------------------------------------------------------
\* Properties of the Edges of addMainRoads / addMinorRoads

SecLo(n) == IndexOf(Sections[n].Path[1])
SecHi(n) == IndexOf(Sections[n].Path[2])

--------------------------------------------------------------------------
\* Properties of Circut

\* a segment without its direction
Und(e) == {e[1], e[2]}

\* the segment runs along one of the four sides of the bounds
OnFrame(e) ==
  \/ (e[1].X = e[2].X /\ e[1].X \in {bnds.Min.X, bnds.Max.X})
  \/ (e[1].Y = e[2].Y /\ e[1].Y \in {bnds.Min.Y, bnds.Max.Y})

SharedByInside(e) ==
  \E c, d \in inside :
    /\ c # d
    /\ \E f \in EdgeSet({c}) : Und(f) = Und(e)
    /\ \E f \in EdgeSet({d}) : Und(f) = Und(e)

\* C7: with every cell inside and no cell outside, every returned segment
\* lies on the frame and none is an edge shared by two inside cells.
CircutOfAllIsFrame ==
  (circPc = "done" /\ inside = cells /\ outside = {}) =>
    \A e \in wall : OnFrame(e) /\ ~SharedByInside(e)

WithinOne(p) ==
  \/ p.X - bnds.Min.X <= 1 \/ bnds.Max.X - p.X <= 1
  \/ p.Y - bnds.Min.Y <= 1 \/ bnds.Max.Y - p.Y <= 1

\* C8: the returned segments are exactly the inside edges (v, n) that are
\* (a) an edge of an outside cell, end points in either order, with v and n
\* vertices of outside cells, or (b) have both end points within one unit of
\* the bounds; this whatever the order in which the keys were visited.
CircutIsRule ==
  circPc = "done" =>
    {Und(e) : e \in wall} =
      {Und(e) : e \in {f \in EdgeSet(inside) :
          \/ /\ \E c \in outside : \E g \in EdgeSet({c}) : f[1] \in Und(g)
             /\ \E c \in outside : \E g \in EdgeSet({c}) : f[2] \in Und(g)
             /\ \E g \in EdgeSet(outside) : Und(g) = Und(f)
          \/ (WithinOne(f[1]) /\ WithinOne(f[2]))}}

\* a call with inside and outside cells that kept an edge shared with an
\* outside cell away from the border and deleted an edge between inside cells
CircutIsRuleWitness ==
  /\ circPc = "done"
  /\ \E e \in wall : ~(WithinOne(e[1]) /\ WithinOne(e[2]))
  /\ \E e \in EdgeSet(inside) : SharedByInside(e) /\ e \notin wall

--------------------------------------------------------------------------
\* C9: whenever the ring walk has written a footprint to the map and
\* recorded it in the district at an anchor, buildingFits held for that
\* footprint at that same anchor just before the write, on every edge of
\* every ring.
FitHeldAtWrittenAnchor ==
  \A n \in 1..Len(placed) : placed[n].fits

--------------------------------------------------------------------------
\* the districts of type t, the user's sites included
DistrictCount(t) == Cardinality({n \in 1..Len(Districts) : Districts[n].Type = t})

\* C10: when the district types are settled and no error was returned,
\* every configured type t has at most MaxInCity(t) districts where
\* MaxInCity(t) > 0, and at least MinInCity(t), also when the user's sites
\* already reach DesiredDistricts.
TypeCountsWithinMinMax ==
  distPc = "done" =>
    \A t \in DistTypes :
      bcfgDistricts[t].ok =>
        /\ (bcfgDistricts[t].MaxInCity > 0 =>
              DistrictCount(t) <= bcfgDistricts[t].MaxInCity)
        /\ DistrictCount(t) >= bcfgDistricts[t].MinInCity

--------------------------------------------------------------------------
\* C11: when verifyDistrictLocations has returned no error, every randomly
\* placed district of type Docks has reached the dock-suitable threshold,
\* and the repair changed the type of each randomly placed district at
\* most once.
DocksAreSuited ==
  (distPc = "done" /\ retyped # <<>>) =>
    \A k \in 1..Len(toSet) :
      /\ Districts[toSet[k]].Type = Docks => toSet[k] \in dockSuited
      /\ retyped[toSet[k]] <= 1

\* a repaired build: a dock was swapped with a potential dock
DocksAreSuitedWitness ==
  /\ distPc = "done"
  /\ retyped # <<>>
  /\ \E k \in 1..Len(toSet) :
       /\ retyped[toSet[k]] = 1
       /\ Districts[toSet[k]].Type = Docks
       /\ toSet[k] \in dockSuited

\* the non-dock types with a positive probability that are still below
\* their MaxInCity
openTypes ==
  {t \in DistTypes \ {Docks} :
     /\ bcfgDistricts[t].ok
     /\ bcfgDistricts[t].Probability > 0
     /\ ~(bcfgDistricts[t].MaxInCity > 0 /\ statsCount(t) >= bcfgDistricts[t].MaxInCity)}

\* C12: in the dock repair, when a failed dock is to be handled, no swap
\* candidate remains, and no non-dock type with positive probability is
\* below its MaxInCity (or removing a dock would go below the Docks
\* MinInCity), verifyDistrictLocations returns an error: it does not keep
\* drawing types for ever.
StuckDockRepairFails ==
  [][(/\ distPc = "docks"
      /\ Len(potentialdock) = 0
      /\ (openTypes = {} \/ ~(statsCount(Docks) > docksMinInCity)))
       => distPc' = "failed"]_vars

--------------------------------------------------------------------------
\* the outside districts addWalls has put into insideDists
promoted == {d \in wasOutside : d \in Range(insideDists)}

\* C13: with k = MinFortifiedSites minus the number of fortified districts
\* without a curtain wall, and k > 0: exactly min(k, number of outside
\* districts) outside districts are promoted; each promoted district has
\* HasFortifications = true and has left the outside set for the inside
\* set, and no unpromoted outside district is strictly nearer the centre
\* than a promoted one.
PromotesNearestOutside ==
  (wallPc = "gates" /\ needed > 0) =>
    /\ Cardinality(promoted) =
         (IF needed < Cardinality(wasOutside) THEN needed ELSE Cardinality(wasOutside))
    /\ \A d \in promoted :
         /\ wallDists[d].HasFortifications
         /\ d \notin Range(outsideDists)
    /\ \A d \in promoted, u \in wasOutside \ promoted :
         ~(wallDists[u].far < wallDists[d].far)

--------------------------------------------------------------------------
\* C14: any two towers the tower filler has placed, over all wall runs and
\* all walled groups, have their centres at least MinDistBetweenTowers
\* apart, or at least MinDistBetweenTowers / 2 (the integer the code
\* computes) when the later of the two stands at the end of a run.
TowersKeepApart ==
  \A m, n \in 1..Len(towerLog) :
    m < n =>
      LET least == IF towerLog[n].atEnd THEN MinDistBetweenTowers \div 2
                   ELSE MinDistBetweenTowers
      IN SqDist(towerLog[m].at.X, towerLog[m].at.Y, towerLog[n].at.X, towerLog[n].at.Y)
           >= least * least

\* a tower placed along a run in a later group, exactly the spacing away
\* from a tower of an earlier group, and a tower at the end of a run nearer
\* than the spacing to an earlier tower
TowersKeepApartWitness ==
  /\ MinDistBetweenTowers > 1
  /\ \E m, n \in 1..Len(towerLog) :
       /\ m < n
       /\ towerLog[n].atEnd
       /\ SqDist(towerLog[m].at.X, towerLog[m].at.Y, towerLog[n].at.X, towerLog[n].at.Y)
            < MinDistBetweenTowers * MinDistBetweenTowers
  /\ \E m, n \in 1..Len(towerLog) :
       /\ m < n
       /\ \E k \in 1..Len(allTowers) : allTowers[k] = towerArea(towerLog[m].at.X, towerLog[m].at.Y)
       /\ ~towerLog[n].atEnd
       /\ SqDist(towerLog[m].at.X, towerLog[m].at.Y, towerLog[n].at.X, towerLog[n].at.Y)
            = MinDistBetweenTowers * MinDistBetweenTowers

--------------------------------------------------------------------------
\* C15: for a main-road edge whose path crosses bridgeable terrain, either
\* a bridge Section is made whose length is at least MinBridgeLength and,
\* when MaxBridgeLength > 0, at most MaxBridgeLength, or the edge is dropped
\* (nothing drawn, no Edge recorded); and the bridges made never exceed
\* MaxBridges when MaxBridges >= 0.
CrossingIsBridgedOrDropped ==
  /\ (linePc = "recorded" /\ ~hasSite /\ \E j \in 1..Len(mes) : mes[j] = enumBridge) =>
       \/ \E n \in 1..Len(Sections) :
            /\ Sections[n].Bridge
            /\ ISqrt(SegSqLen(Sections[n].Path)) >= MinBridgeLength
            /\ MaxBridgeLength > 0 => ISqrt(SegSqLen(Sections[n].Path)) <= MaxBridgeLength
       \/ (edgeOf = "none" /\ drawn = <<>>)
  /\ (maxBridges >= 0 => createdBridges <= maxBridges)

--------------------------------------------------------------------------
\* C16: when a phase of the build fails, New reports the error and the
\* *Citygraph it returns is nil.
FailedBuildReturnsNil ==
  (distPc = "returned" /\ retErr) => retCg.isNil

--------------------------------------------------------------------------
\* C18: after a finished build no coordinate of the map holds both a
\* structure flag (road, bridge, wall, tower, gatehouse) and a building
\* (BuildingID other than 0).
StructureOrBuilding ==
  ringPc = "done" =>
    \A p \in MapGrid : ~(p \in structures /\ BuildingID(p) # 0)

--------------------------------------------------------------------------
\* the absent value of every read
absent ==
  [IsRoad |-> FALSE, IsBridge |-> FALSE, IsWall |-> FALSE, IsTower |-> FALSE,
   IsGatehouse |-> FALSE, BuildingID |-> <<-1, TRUE>>, District |-> <<Empty, -1, TRUE>>]

\* C17: at every coordinate outside the map rectangle (x < Min.X,
\* x >= Max.X, y < Min.Y or y >= Max.Y) the flag reads return false,
\* BuildingID returns -1 with an error and District returns Empty, -1 with
\* an error.
OutsideReadsAbsent ==
  (/\ mapPc = "read"
   /\ \/ mapQuery.X < imBounds.Min.X \/ mapQuery.X >= imBounds.Max.X
      \/ mapQuery.Y < imBounds.Min.Y \/ mapQuery.Y >= imBounds.Max.Y)
    => mapRead = absent

\* a wall, tower or gatehouse was drawn at q
fortDrawn(q) == scratch[q].b >= 50

\* C19: after endDraw with a radius above 0, every pixel on which nothing
\* was drawn, that is buildable or bridgeable and has a drawn wall, tower or
\* gatehouse within radius pixels of it in any direction, holds the road
\* flag (buildable) or the bridge flag (bridgeable).
NearFortIsPromoted ==
  (mapPc = "drawn" /\ wallBorderRoadWidth > 0) =>
    \A p \in Pix(imBounds) :
      (/\ scratch[p] = Colour(0, 0, 0)
       /\ p \in outlineBuild \cup outlineBridge
       /\ \E q \in Pix(imBounds) :
            /\ fortDrawn(q)
            /\ q.X - p.X \in (0 - wallBorderRoadWidth)..wallBorderRoadWidth
            /\ q.Y - p.Y \in (0 - wallBorderRoadWidth)..wallBorderRoadWidth)
        => /\ p \in outlineBuild => "road" \in im[p].bits
           /\ p \in outlineBridge => "bridge" \in im[p].bits

--------------------------------------------------------------------------
\* C20: after the buildings of a district are placed, every footprint with
\* MaxInDistrict > 0 has at most MaxInDistrict buildings of its ID counted in
\* Stats.BuildingsByID, the forced-minimum placements and the central
\* building included.
BuildingsWithinMax ==
  ringPc = "done" =>
    \A k \in 1..Len(dcfgBuildings) :
      dcfgBuildings[k].MaxInDistrict > 0 =>
        BuildingsByID[dcfgBuildings[k].ID] <= dcfgBuildings[k].MaxInDistrict

--------------------------------------------------------------------------
\* C21: after the buildings are placed, every footprint with MaxInCity > 0
\* has at most MaxInCity buildings placed by the ring walk in the city (here
\* a city of one district).
BuildingsWithinMaxInCity ==
  ringPc = "done" =>
    \A k \in 1..Len(dcfgBuildings) :
      dcfgBuildings[k].MaxInCity > 0 =>
        Cardinality({n \in 1..Len(placed) : placed[n].b = k})
          <= dcfgBuildings[k].MaxInCity

\* C22: addBuildingsToDistrict returns no error only if every footprint of
\* the district has at least MinInDistrict buildings placed.
ForcedMinimumPlaced ==
  ringPc = "done" =>
    \A k \in 1..Len(dcfgBuildings) :
      BuildingsByID[dcfgBuildings[k].ID] >= dcfgBuildings[k].MinInDistrict

\* C23: the Building recorded for a footprint of width w and height h
\* written at the anchor (x, y) has Area.Min = (x, y) and Area.Max =
\* (x + w, y + h).
BuildingAreaAtAnchor ==
  \A n \in 1..Len(placed) :
    LET B == Buildings[Len(Buildings) - Len(placed) + n]
        b == dcfgBuildings[placed[n].b]
    IN /\ B.Area.Min = placed[n].at
       /\ B.Area.Max = Pt(placed[n].at.X + b.Area.Max.X - b.Area.Min.X,
                          placed[n].at.Y + b.Area.Max.Y - b.Area.Min.Y)

--------------------------------------------------------------------------
\* C28: when addWalls calls wallDistricts for the city wall, the inside and
\* the outside districts handed to Circut have no district in common, and
\* every inside district has HasFortifications = true.
CityWallSidesDisjoint ==
  (wallPc = "gates" /\ Len(insideDists) > 0) =>
    /\ Range(insideDists) \cap Range(wallDistrictsOut(insideDists, outsideDists)) = {}
    /\ \A d \in Range(insideDists) : wallDists[d].HasFortifications

--------------------------------------------------------------------------
\* C25: c.Gates never holds more than MaxCityGates gatehouses, and no
\* curtain-walled district holds more than one.
GatesWithinMax ==
  /\ Cardinality(Gates) <= MaxCityGates
  /\ \A n \in 1..Len(dGates) :
       wallDists[n].HasCurtainFortifications => Cardinality(dGates[n]) <= 1

--------------------------------------------------------------------------
\* C27: a tower of a gate or of the tower filler is drawn only on cells
\* where no tower was drawn earlier in the build: no two of the towers
\* drawn so far share a cell (stated for a positive MinDistBetweenTowers,
\* where the filler's loop ends).
TowersDrawnOnFreeCells ==
  LET ts == allTowers \o towers
  IN \A m, n \in 1..Len(ts) :
       (MinDistBetweenTowers > 0 /\ m < n) =>
         ~(/\ ts[m].Min.X < ts[n].Max.X /\ ts[n].Min.X < ts[m].Max.X
           /\ ts[m].Min.Y < ts[n].Max.Y /\ ts[n].Min.Y < ts[m].Max.Y)

--------------------------------------------------------------------------
\* C26: the wall phase of every build comes to its end, for every
\* MinDistBetweenTowers >= 0: every walled group is walled and every call
\* of fillWithTowers returns.
TowerFillingEnds == <>(towerPc = "walls" /\ towerGroups = <<>>)

--------------------------------------------------------------------------
\* C29: the calls of Next return the points of the bounds [Min, Max) for
\* which the polygon test is true, each once, by rows (y ascending, then x
\* ascending), and nil from then on.
GeneratorEnumeratesOnce ==
  LET pts == {q \in {Pt(x, y) : x \in genBounds.Min.X..(genBounds.Max.X - 1),
                                y \in genBounds.Min.Y..(genBounds.Max.Y - 1)} :
                Contains(genBounds, q)}
      rank(q) == Cardinality({r \in pts : r.Y < q.Y \/ (r.Y = q.Y /\ r.X <= q.X)})
  IN \A n \in 1..Len(genReturned) :
       IF n <= Cardinality(pts)
         THEN /\ ~genReturned[n].isNil
              /\ Pt(genReturned[n].X, genReturned[n].Y) \in pts
              /\ rank(Pt(genReturned[n].X, genReturned[n].Y)) = n
         ELSE genReturned[n].isNil

--------------------------------------------------------------------------
\* C30: after Repair the edge list of the cell is one closed walk: every
\* edge ends where the next one starts, the last ends where the first
\* starts, no edge has its two end points equal, and every end point is
\* the coordinate its merged group is mapped to.
RepairedCellIsClosedWalk ==
  repairPc = "done" =>
    \A n \in 1..Len(cellEdges) :
      /\ cellEdges[n] # nilSegment
      /\ cellEdges[(n % Len(cellEdges)) + 1] # nilSegment
      /\ cellEdges[n][2] = cellEdges[(n % Len(cellEdges)) + 1][1]
      /\ cellEdges[n][1] # cellEdges[n][2]
      /\ \A k \in 1..2 : mapping[cellEdges[n][k]] = cellEdges[n][k]

--------------------------------------------------------------------------
\* C24: after verifyDistrictLocations has returned no error, every randomly
\* placed district whose type is neither Empty nor Docks has Stats.Buildable
\* of at least MinDistrictSize.
PlacedDistrictsHaveLand ==
  placePc = "done" =>
    \A k \in 1..Len(Buildable) :
      (addedTypes[k] # Empty /\ addedTypes[k] # Docks) =>
        Buildable[k] >= MinDistrictSize

====
